---- MODULE Spec2Model ----
\* CCSDS transmit/receive pipeline stages (GNU Radio embedded Python blocks):
\*   TM framer        sync_coding/sync_coding_v0_epy_block_0.py
\*   SPP tagger       sync_coding/default_epy_block_6.py
\*   conv. encoder    sync_coding/sync_coding_v0_epy_block_3.py
\*   Viterbi decoder  Rx_TM/new_rx_chain_v0_epy_block_0.py
\* Each stage is a state machine driven by the host scheduler, which picks the
\* size of the input window and of the output window of every invocation.
EXTENDS Integers, Sequences, FiniteSets, TLC

\* ---------------------------------------------------------------- bounds
MaxStream  == 5      \* bytes in a framer input stream
MaxFrames  == 3      \* frames emitted in one behaviour
MaxRoom    == 2      \* frames of output room offered per invocation
WrapFrames == 258    \* frames emitted in the idle-only behaviour (counters wrap)
MaxTagPkts == 2      \* packets in a tagger input stream
MaxLenField == 0     \* largest packet length field D in a tagger input stream
MaxTagRoom == 8      \* largest output window offered to the tagger
MaxTags    == 2      \* tags added by the tagger in one behaviour
MaxVitFrames == 2    \* frames in a decoder input stream
MaxVitRoom   == 3    \* largest output window offered to the decoder
MaxVitTags   == 3    \* tags added by the decoder in one behaviour
MaxRzFrames  == 2    \* frames in a randomizer input stream
MaxRzLen     == 2    \* bytes in a randomizer input frame
MaxRzRoom    == 3    \* largest output window offered to a randomizer
MaxRzStream  == 4    \* bytes in a randomizer input stream
MaxRsFrames  == 2    \* frames in a Reed-Solomon input stream
MaxAsmFrames == 3    \* frames in an ASM inserter input stream
MaxAsmLen    == 2    \* bytes in an ASM inserter input frame
MaxEncFrames == 2    \* frames in an encoder input stream
MaxEncRoom   == 3    \* largest output window offered to the encoder
MaxEncGap    == 1    \* untagged bytes ahead of an encoder input frame
MaxChainFrames == 2  \* TM frames emitted into the connected chain
ChainCut     == 600  \* a window that ends inside a frame of the chain
MaxFlipUser  == 4    \* user bytes of a packet whose every bit the link may invert
MaxRounds    == 16386 \* --count-per of the long sender run
MaxRsTagFrames == 3  \* frames in a Reed-Solomon input stream with wrong length tags
MaxYieldStream == 3  \* bytes in a framer input stream when short windows are examined
MaxYieldFrames == 2  \* frames in an ASM input stream when short windows are examined
MaxDepth     == 5    \* largest interleaving depth of the labelled codewords
MaxBpStream  == 4    \* bytes in a body packer input stream
MaxBpBodies  == 2    \* bodies of output room offered to the body packer
MaxFlushes   == 2    \* flush messages sent to the body packer
MaxBpCalls   == 3    \* invocations of the body packer in one behaviour

\* ---------------------------------------------------------------- generic helpers
Min(a, b) == IF a < b THEN a ELSE b

\* F applied to the value of v, with v evaluated once
Strict(v, F(_)) == CHOOSE r \in {F(x) : x \in {v}} : TRUE

RECURSIVE BitXor(_, _)
BitXor(a, b) ==
  IF a = 0 THEN b
  ELSE IF b = 0 THEN a
  ELSE (((a % 2) + (b % 2)) % 2) + 2 * BitXor(a \div 2, b \div 2)

RECURSIVE BitAnd(_, _)
BitAnd(a, b) ==
  IF a = 0 \/ b = 0 THEN 0
  ELSE ((a % 2) * (b % 2)) + 2 * BitAnd(a \div 2, b \div 2)

\* Python slices: s[lo:hi] and del s[:n] on 0-based sequences
Slice(s, lo, hi) == SubSeq(s, lo + 1, Min(hi, Len(s)))
Drop(s, n)       == SubSeq(s, Min(n, Len(s)) + 1, Len(s))
Zeros(n)         == [i \in 1..n |-> 0]
Fill(b, n)       == [i \in 1..n |-> b]
\* s[start:start+len(d)] = d, with len(d) bytes replaced by len(d) bytes
Overwrite(s, start, d) ==
  CHOOSE r \in {[i \in 1..Len(x) |-> IF i > start /\ i <= start + Len(y)
                                     THEN y[i - start] ELSE x[i]] :
                  x \in {s}, y \in {d}} : TRUE

RECURSIVE Flatten(_)
Flatten(ss) == IF ss = <<>> THEN <<>> ELSE Head(ss) \o Flatten(Tail(ss))

\* ================================================================ TM framer
VARIABLES
  fr_cfg,          \* constructor arguments: tfdf_len, include_fecf, emit_idle
  fr_lens,         \* the input stream: lengths of its back-to-back packets
  fr_nread,        \* nitems_read(0)
  fr_inbuf,        \* self._inbuf
  fr_pending_tags, \* self._pending_tags : <<rel_offset, spp_len>>
  fr_spp_queue,    \* self._spp_queue
  fr_cur_pkt,      \* self._cur_pkt (NoPkt = None)
  fr_mc_cnt,       \* self.mc_cnt
  fr_vc_cnt,       \* self.vc_cnt
  fr_out,          \* every byte written to output port 0
  fr_otags,        \* every tag added on output port 0, in order
  fr_queued,       \* history: every packet appended to _spp_queue
  fr_frames,       \* history: offset, length of every frame written, and the
                   \*          number of packets queued so far when it was built
  fr_last          \* history: the last invocation

frvars == <<fr_cfg, fr_lens, fr_nread, fr_inbuf, fr_pending_tags, fr_spp_queue,
            fr_cur_pkt, fr_mc_cnt, fr_vc_cnt, fr_out, fr_otags, fr_queued, fr_frames,
            fr_last>>

header_len == 6
SCID       == 0
VCID       == 0
IDLE_FILL  == 85
FHP_NONE   == 2047
FHP_OID    == 2046

fecf_len  == IF fr_cfg.include_fecf THEN 2 ELSE 0
tfdf_len  == fr_cfg.tfdf_len
frame_len == header_len + tfdf_len + fecf_len

NoPkt == [data |-> <<>>, pos |-> 0, len |-> 0]

\* ---- the input stream offered by the upstream stage
RECURSIVE SumSeq(_)
SumSeq(s) == IF s = <<>> THEN 0 ELSE Head(s) + SumSeq(Tail(s))

\* The framer copies packet bytes without reading them, so byte i of the stream
\* carries the label LabelBase + i: every input byte is identifiable in the
\* output and none equals the zero filler or the idle fill byte.
LabelBase == 100
InBytes == [i \in 1..SumSeq(fr_lens) |-> LabelBase + i]
\* offset of the first byte of packet k (0-based offsets, 1-based k)
PktOff(k) == SumSeq(SubSeq(fr_lens, 1, k - 1))
\* upstream length tags: one per packet at its first byte
InTags == [k \in 1..Len(fr_lens) |-> [offset |-> PktOff(k), value |-> fr_lens[k]]]
PktBytes(k) == Slice(InBytes, PktOff(k), PktOff(k) + fr_lens[k])

\* ---- _crc16_ibm: crc ^= (b << 8); 8 x (shift left, xor 0x1021 when bit 15 was set)
\* x ^ 0x1021 flips bits 12, 5 and 0 of x
FlipBit(x, p) == IF (x \div (2 ^ p)) % 2 = 1 THEN x - (2 ^ p) ELSE x + (2 ^ p)
crc16_poly(x) == FlipBit(FlipBit(FlipBit(x, 12), 5), 0)

RECURSIVE crc16_bits(_, _)
crc16_bits(crc, n) ==
  IF n = 0 THEN crc
  ELSE IF crc >= 32768
       THEN crc16_bits(crc16_poly((crc * 2) % 65536), n - 1)
       ELSE crc16_bits((crc * 2) % 65536, n - 1)

\* one byte b: crc ^= (b << 8), then the 8 bit steps
crc16_byte(crc, b) == crc16_bits(BitXor(crc \div 256, b) * 256 + (crc % 256), 8)

\* crc after the first k bytes of data
RECURSIVE crc16_upto(_, _, _)
crc16_upto(data, init, k) ==
  IF k = 0 THEN init ELSE crc16_byte(crc16_upto(data, init, k - 1), data[k])

crc16_ibm(data, init) == crc16_upto(data, init, Len(data)) % 65536

\* ---- _pack_primary_header (sync_flag = sec_hdr_flag = pkt_order_flag = seg_len_id = 0)
pack_primary_header(fhp, mc, vc) ==
  LET word0 == (SCID % 1024) * 16 + (VCID % 8) * 2 + 0
      dfs   == fhp % 2048
  IN  << (word0 \div 256) % 256, word0 % 256, mc % 256, vc % 256,
         (dfs \div 256) % 256, dfs % 256 >>

\* mutant: the counter wraps at 255 instead of 256
advance_counter_mod255(c) == (c + 1) % 255
advance_counter(c) == (c + 1) % 256

\* ---- _collect_spp_tags: tags in [nread, nread + n_input), sorted by offset
collect_spp_tags(pending, nread, n_input) ==
  LET hit(t) == t.offset >= nread /\ t.offset < nread + n_input /\ t.value > 0
      sel    == SelectSeq(InTags, hit)
  IN  pending \o [i \in 1..Len(sel) |-> <<sel[i].offset - nread, sel[i].value>>]

\* ---- general_work, lines 149-164: carve complete SPPs out of _inbuf
RECURSIVE Carve(_, _, _)
Carve(inbuf, pending, queue) ==
  IF pending = <<>> THEN [inbuf |-> inbuf, pending |-> pending, queue |-> queue]
  ELSE LET rel_off == Head(pending)[1]
           L       == Head(pending)[2]
       IN  IF rel_off < 0 THEN Carve(inbuf, Tail(pending), queue)
           ELSE IF Len(inbuf) < rel_off + L
                THEN [inbuf |-> inbuf, pending |-> pending, queue |-> queue]
           ELSE Carve(Drop(inbuf, rel_off + L),
                      [i \in 1..(Len(pending) - 1) |->
                          <<pending[i + 1][1] - (rel_off + L), pending[i + 1][2]>>],
                      Append(queue, [data |-> Slice(inbuf, rel_off, rel_off + L),
                                     pos |-> 0, len |-> L]))

\* ---- general_work, lines 172-182: continuation of a split packet first
PlaceCont(tfdf, cur) ==
  IF cur = NoPkt THEN [tfdf |-> tfdf, cursor |-> 0, cur |-> cur]
  ELSE LET rem  == cur.len - cur.pos
           take == Min(rem, Len(tfdf))
           t2   == IF take > 0 THEN Overwrite(tfdf, 0, Slice(cur.data, cur.pos, cur.pos + take))
                   ELSE tfdf
           pos2 == IF take > 0 THEN cur.pos + take ELSE cur.pos
           c2   == IF take > 0 THEN take ELSE 0
       IN  [tfdf |-> t2, cursor |-> c2,
            cur |-> IF pos2 >= cur.len THEN NoPkt ELSE [cur EXCEPT !.pos = pos2]]

\* mutant: the split branch does not record how much of the packet was placed
RECURSIVE PlaceNew_pos0(_, _, _, _, _)
PlaceNew_pos0(tfdf, cursor, hs, queue, cur) ==
  IF ~(cursor < Len(tfdf) /\ queue # <<>>)
  THEN [tfdf |-> tfdf, cursor |-> cursor, hs |-> hs, queue |-> queue, cur |-> cur]
  ELSE LET pkt  == Head(queue)
           L    == pkt.len
           room == Len(tfdf) - cursor
       IN  IF L <= room
           THEN PlaceNew_pos0(Overwrite(tfdf, cursor, pkt.data), cursor + L,
                              Append(hs, cursor), Tail(queue), cur)
           ELSE [tfdf |-> Overwrite(tfdf, cursor, Slice(pkt.data, 0, room)),
                 cursor |-> Len(tfdf), hs |-> Append(hs, cursor),
                 queue |-> Tail(queue), cur |-> pkt]

\* ---- general_work, lines 184-203: place new SPPs, record header starts
RECURSIVE PlaceNew(_, _, _, _, _)
PlaceNew(tfdf, cursor, hs, queue, cur) ==
  IF ~(cursor < Len(tfdf) /\ queue # <<>>)
  THEN [tfdf |-> tfdf, cursor |-> cursor, hs |-> hs, queue |-> queue, cur |-> cur]
  ELSE LET pkt  == Head(queue)
           L    == pkt.len
           room == Len(tfdf) - cursor
       IN  IF L <= room
           THEN PlaceNew(Overwrite(tfdf, cursor, pkt.data), cursor + L,
                         Append(hs, cursor), Tail(queue), cur)
           ELSE [tfdf |-> Overwrite(tfdf, cursor, Slice(pkt.data, 0, room)),
                 cursor |-> Len(tfdf), hs |-> Append(hs, cursor),
                 queue |-> Tail(queue), cur |-> [pkt EXCEPT !.pos = room]]

\* ---- general_work, lines 205-219: idle fill and FHP of a TFDF filled as b
\* b = [tfdf, cursor, hs, queue, cur] as PlaceNew returns it
only_idle(b) == b.cursor < tfdf_len /\ fr_cfg.emit_idle /\ b.hs = <<>>
                /\ b.cur = NoPkt /\ b.queue = <<>>
FilledTfdf(b) == IF only_idle(b)
                 THEN Overwrite(b.tfdf, b.cursor, Fill(IDLE_FILL, tfdf_len - b.cursor))
                 ELSE b.tfdf
Fhp(b) == IF only_idle(b) THEN FHP_OID
          ELSE IF b.hs # <<>> THEN b.hs[1] ELSE FHP_NONE

\* mutant: the CRC is appended low byte first
fecf_bytes_low_first(crc) == << crc % 256, (crc \div 256) % 256 >>
\* lines 226-227: the CRC, high byte first
fecf_bytes(crc) == << (crc \div 256) % 256, crc % 256 >>

\* mutant: the FECF is never appended
no_fecf(frame_wo_fecf) == frame_wo_fecf
\* ---- general_work, lines 224-229: append the FECF when enabled
with_fecf(frame_wo_fecf) ==
  IF fr_cfg.include_fecf
  THEN frame_wo_fecf \o fecf_bytes(crc16_ibm(frame_wo_fecf, 65535))
  ELSE frame_wo_fecf

\* ---- general_work, lines 215-229: the frame around a TFDF filled as b
FrameOf(b, mc, vc) ==
  [frame |-> with_fecf(pack_primary_header(Fhp(b), mc, vc) \o FilledTfdf(b)),
   cursor |-> b.cursor, queue |-> b.queue, cur |-> b.cur]

\* new SPPs after the continuation a = [tfdf, cursor, cur] placed by PlaceCont
PlaceNewAfter(a, queue) == PlaceNew(a.tfdf, a.cursor, <<>>, queue, a.cur)

\* ---- general_work, lines 168-229: one frame
BuildFrame(queue, cur, mc, vc) ==
  FrameOf(PlaceNewAfter(PlaceCont(Zeros(tfdf_len), cur), queue), mc, vc)

\* ---- general_work, lines 231-237: write frame f, tag it, advance the counters
\* s = [queue, cur, mc, vc, out, tags, log, produced]
\* nitems_written(0) = Len(fr_out); nq = packets queued so far (history only)
EmitFrame(s, f, nq) ==
  [queue |-> f.queue, cur |-> f.cur,
   mc |-> advance_counter(s.mc), vc |-> advance_counter(s.vc),
   out |-> Overwrite(s.out \o Zeros(Len(f.frame)), s.produced, f.frame),
   tags |-> Append(s.tags, [offset |-> Len(fr_out) + s.produced,
                            value |-> Len(f.frame)]),
   log  |-> Append(s.log, [off |-> Len(fr_out) + s.produced,
                           len |-> Len(f.frame), nq |-> nq]),
   produced |-> s.produced + Len(f.frame)]

\* ---- general_work, lines 167-242: the while loop over frames; the test of
\* lines 241-242 comes after frame f has been written
RECURSIVE Assemble(_, _, _)
AfterFrame(s, f, n_out, nq) ==
  IF f.cursor = 0 /\ ~fr_cfg.emit_idle THEN EmitFrame(s, f, nq)
  ELSE Assemble(EmitFrame(s, f, nq), n_out, nq)
Assemble(s, n_out, nq) ==
  IF ~(n_out - s.produced >= frame_len) THEN s
  ELSE AfterFrame(s, BuildFrame(s.queue, s.cur, s.mc, s.vc), n_out, nq)

\* ---- general_work, lines 144-164: ingest n_in bytes and their tags, carve
fr_ingest(n_in) ==
  Carve(fr_inbuf \o Slice(InBytes, fr_nread, fr_nread + n_in),
        IF n_in > 0 THEN collect_spp_tags(fr_pending_tags, fr_nread, n_in)
        ELSE fr_pending_tags,
        fr_spp_queue)

\* ---- general_work(input_items, output_items)
\* c = the buffers after carving, s = the result of the frame loop
fr_general_work(n_in, n_out) ==
  IF n_out < frame_len
  THEN UNCHANGED frvars
  ELSE \E c \in {fr_ingest(n_in)} :
       \E s \in {Assemble([queue |-> c.queue, cur |-> fr_cur_pkt,
                            mc |-> fr_mc_cnt, vc |-> fr_vc_cnt,
                            out |-> <<>>, tags |-> <<>>, log |-> <<>>,
                            produced |-> 0], n_out,
                           Len(fr_queued) + Len(c.queue) - Len(fr_spp_queue))} :
           /\ fr_inbuf' = c.inbuf
           /\ fr_pending_tags' = c.pending
           /\ fr_spp_queue' = s.queue
           /\ fr_cur_pkt' = s.cur
           /\ fr_mc_cnt' = s.mc
           /\ fr_vc_cnt' = s.vc
           /\ fr_out' = fr_out \o s.out
           /\ fr_otags' = fr_otags \o s.tags
           /\ fr_frames' = fr_frames \o s.log
           /\ fr_nread' = fr_nread + n_in
           /\ fr_queued' = fr_queued \o SubSeq(c.queue, Len(fr_spp_queue) + 1, Len(c.queue))
           /\ fr_last' = [had_data |-> (c.queue # <<>> \/ fr_cur_pkt # NoPkt),
                          produced |-> s.produced, ran |-> TRUE]
           /\ UNCHANGED <<fr_cfg, fr_lens>>

\* ---- the host scheduler
\* output windows: one byte short of a frame, and whole numbers of frames
RoomSizes == {frame_len - 1, frame_len, MaxRoom * frame_len}

\* input windows: any number of the bytes not yet read; for the long
\* segmentation example a few sizes that cut and do not cut packets
InWindows ==
  LET rem == SumSeq(fr_lens) - fr_nread
  IN  IF SumSeq(fr_lens) <= MaxStream THEN 0..rem
      ELSE {n \in {0, 250, 500, 1200, rem} : n <= rem}

\* the idle-only behaviour is followed until the 8-bit counters have wrapped
FrameCap == IF fr_lens = <<>> /\ fr_cfg.emit_idle /\ ~fr_cfg.include_fecf
                /\ fr_cfg.tfdf_len = 2
            THEN WrapFrames ELSE MaxFrames

FramerWork ==
  \E n_in \in InWindows, n_out \in RoomSizes :
     /\ Len(fr_frames) + (n_out \div frame_len) <= FrameCap
     /\ fr_general_work(n_in, n_out)

\* every stream of back-to-back packets that is at most MaxStream bytes long
Streams ==
  {s \in UNION {[1..n -> 1..MaxStream] : n \in 0..MaxStream} : SumSeq(s) <= MaxStream}

\* constructor arguments tried; the FECF is computed for the shortest frames,
\* with idle emission disabled
TfdfLens == {2, 3}
FramerConfigs ==
  {c \in [tfdf_len : TfdfLens, include_fecf : BOOLEAN, emit_idle : BOOLEAN] :
      c.include_fecf => (c.tfdf_len = 2 /\ ~c.emit_idle)}

\* spec.md section 8, scenario 4: packets of 500, 700 and 600 bytes, TFDF 1103
SegLens == <<500, 700, 600>>
SegCfg  == [tfdf_len |-> 1103, include_fecf |-> FALSE, emit_idle |-> FALSE]

\* state after __init__
FramerStart ==
  /\ fr_nread = 0
  /\ fr_inbuf = <<>>
  /\ fr_pending_tags = <<>>
  /\ fr_spp_queue = <<>>
  /\ fr_cur_pkt = NoPkt
  /\ fr_mc_cnt = 0
  /\ fr_vc_cnt = 0
  /\ fr_out = <<>>
  /\ fr_otags = <<>>
  /\ fr_queued = <<>>
  /\ fr_frames = <<>>
  /\ fr_last = [had_data |-> FALSE, produced |-> 0, ran |-> FALSE]

FramerInit ==
  /\ \/ fr_cfg \in FramerConfigs /\ fr_lens \in Streams
     \/ fr_cfg = SegCfg /\ fr_lens = SegLens
  /\ FramerStart

\* ---- a data field longer than the 11-bit FHP can address: __init__ only
\* requires frame_len >= header_len + fecf_len + 1 (lines 53-58). The first
\* packet fills the first TFDF and runs h bytes into the second, where the
\* second packet begins at offset h.
LongCfgs == [tfdf_len : {2050}, include_fecf : {FALSE}, emit_idle : BOOLEAN]
LongStreams == {<<2050 + h, 2>> : h \in {2045, 2046, 2047, 2048}}
FramerLongInit ==
  /\ fr_cfg \in LongCfgs
  /\ fr_lens \in LongStreams
  /\ FramerStart

\* the framer when another stage is examined: constructed, no input
FramerIdle ==
  /\ fr_cfg = [tfdf_len |-> 2, include_fecf |-> FALSE, emit_idle |-> FALSE]
  /\ fr_lens = <<>>
  /\ FramerStart

\* ================================================================ SPP tagger
VARIABLES
  tg_D,        \* the input stream: length field D of each back-to-back packet
  tg_nread,    \* input items consumed so far
  tg_buf,      \* self._buf
  tg_abs_out,  \* self._abs_out
  tg_out,      \* every byte written to output port 0
  tg_otags     \* every tag added on output port 0, in order

tgvars == <<tg_D, tg_nread, tg_buf, tg_abs_out, tg_out, tg_otags>>

\* total bytes of a packet with length field D: 6 + (D + 1)
SppLen(D) == 6 + (D + 1)
RECURSIVE SppOff(_, _)
SppOff(Ds, k) == IF k <= 1 THEN 0 ELSE SppOff(Ds, k - 1) + SppLen(Ds[k - 1])
\* packet k of the stream: 4 header bytes, the big-endian length field, data;
\* bytes other than the length field carry 16 + their stream offset
SppBytes(Ds, k) ==
  [i \in 1..SppLen(Ds[k]) |->
     IF i = 5 THEN Ds[k] \div 256
     ELSE IF i = 6 THEN Ds[k] % 256
     ELSE 16 + SppOff(Ds, k) + i]
RECURSIVE SppStream(_, _)
SppStream(Ds, k) == IF k = 0 THEN <<>> ELSE SppStream(Ds, k - 1) \o SppBytes(Ds, k)
TagIn == SppStream(tg_D, Len(tg_D))

\* mutant: the header of the first packet is copied and stays in the buffer
TagLoop_keep(t, room) ==
  IF Len(t.buf) < 6 \/ room < 6 THEN t
  ELSE [t EXCEPT !.out = t.out \o Slice(t.buf, 0, 6), !.produced = t.produced + 6, !.abs_out = t.abs_out + 6]
\* ---- general_work, lines 32-58: tag and copy complete packets
\* t = [buf, produced, abs_out, tags, out]
RECURSIVE TagLoop(_, _)
TagLoop(t, room) ==
  IF Len(t.buf) < 6 THEN t
  ELSE LET pkt_len_field == t.buf[5] * 256 + t.buf[6]
           total_len     == 6 + (pkt_len_field + 1)
           tagged        == Append(t.tags, [offset |-> t.abs_out, value |-> total_len])
           n             == Min(room - t.produced, total_len)
       IN  IF Len(t.buf) < total_len THEN t
           ELSE IF n < total_len THEN [t EXCEPT !.tags = tagged]
           ELSE TagLoop([buf |-> Drop(t.buf, total_len),
                         produced |-> t.produced + total_len,
                         abs_out |-> t.abs_out + total_len,
                         tags |-> tagged,
                         out |-> t.out \o Slice(t.buf, 0, total_len)], room)

\* ---- general_work(input_items, output_items); room = len(output_items[0])
tg_general_work(n_in, room) ==
  LET t == TagLoop([buf |-> tg_buf \o Slice(TagIn, tg_nread, tg_nread + n_in),
                    produced |-> 0, abs_out |-> tg_abs_out,
                    tags |-> <<>>, out |-> <<>>], room)
      spill == Min(room - t.produced, Len(t.buf))
  IN  /\ tg_buf' = Drop(t.buf, spill)
      /\ tg_out' = tg_out \o t.out \o Slice(t.buf, 0, spill)
      /\ tg_abs_out' = t.abs_out + spill
      /\ tg_otags' = tg_otags \o t.tags
      /\ tg_nread' = tg_nread + n_in
      /\ UNCHANGED tg_D

TaggerWork ==
  \E n_in \in 0..(Len(TagIn) - tg_nread), room \in 1..MaxTagRoom :
     /\ Len(tg_otags) < MaxTags
     /\ tg_general_work(n_in, room)

TaggerStart ==
  /\ tg_nread = 0
  /\ tg_buf = <<>>
  /\ tg_abs_out = 0
  /\ tg_out = <<>>
  /\ tg_otags = <<>>

TaggerInit ==
  /\ tg_D \in UNION {[1..n -> 0..MaxLenField] : n \in 1..MaxTagPkts}
  /\ TaggerStart

TaggerIdle == tg_D = <<>> /\ TaggerStart


\* ================================================================ convolutional encoder
\* sync_coding_v0_epy_block_3.py, K = 7, gen0 = 0o171, gen1 = 0o133, msb_first
ENC_K    == 7
ENC_GEN0 == 121
ENC_GEN1 == 91

\* _parity_u32: clear the lowest set bit until x is 0, toggling cnt
RECURSIVE enc_parity_u32(_)
enc_parity_u32(x) ==
  IF x = 0 THEN 0 ELSE 1 - enc_parity_u32(BitAnd(x, x - 1))

\* _bytes_to_bits, msb_first
bytes_to_bits(b) ==
  [i \in 1..(8 * Len(b)) |-> (b[((i - 1) \div 8) + 1] \div (2 ^ (7 - ((i - 1) % 8)))) % 2]

\* _conv_encode_bits: coded bits of in_bits from register value state
RECURSIVE conv_encode_bits(_, _)
conv_encode_bits(in_bits, state) ==
  IF in_bits = <<>> THEN <<>>
  ELSE LET st == ((state * 2) + (Head(in_bits) % 2)) % (2 ^ ENC_K)
       IN  << enc_parity_u32(BitAnd(st, ENC_GEN0)), enc_parity_u32(BitAnd(st, ENC_GEN1)) >>
           \o conv_encode_bits(Tail(in_bits), st)

\* one frame with reset_each_frame: the register is 0 at the first bit
EncodeFrame(b) == conv_encode_bits(bytes_to_bits(b), 0)

\* ================================================================ Viterbi decoder
\* Rx_TM/new_rx_chain_v0_epy_block_0.py, K = 7, pm1 softs, reset_each_frame
VARIABLES
  vt_frames,             \* the transmitted frames (byte sequences)
  vt_softs,              \* the soft values offered on input port 0
  vt_itags,              \* the length tags on input port 0
  vt_nread,              \* soft values consumed so far
  vt_inbuf,              \* self._inbuf
  vt_outbuf,             \* self._outbuf
  vt_frame_queue_bits,   \* self._frame_queue_bits
  vt_pending_out_frames, \* self._pending_out_frames
  vt_head_remaining,     \* self._head_remaining
  vt_out,                \* every byte written to output port 0
  vt_otags               \* every tag added on output port 0, in order

vtvars == <<vt_frames, vt_softs, vt_itags, vt_nread, vt_inbuf, vt_outbuf, vt_frame_queue_bits,
            vt_pending_out_frames, vt_head_remaining, vt_out, vt_otags>>

VIT_K    == 7
VIT_GEN0 == 121
VIT_GEN1 == 91
NSTATES  == 2 ^ (VIT_K - 1)
\* BIG = 1e12 in the source marks an unreachable state; TLC integers are 32
\* bits wide, so the model uses 10^9, far above any path metric (at most 8
\* per symbol) of the frames examined
BIG      == 1000000000

\* _parity_u32 of the decoder: fold to 4 bits, look up in 0x6996
vit_parity_u32(x) ==
  LET v1 == BitXor(x, x \div 65536)
      v2 == BitXor(v1, v1 \div 256)
      v3 == BitXor(v2, v2 \div 16)
      v  == v3 % 16
  IN  (27030 \div (2 ^ v)) % 2

\* _build_trellis
trellis_full(s, u) == ((s * 2) + u) % (2 ^ VIT_K)
trellis_ns   == [s \in 0..(NSTATES - 1) |-> [u \in 0..1 |->
                   (trellis_full(s, u) \div 2) % (2 ^ (VIT_K - 1))]]
trellis_obit == [s \in 0..(NSTATES - 1) |-> [u \in 0..1 |->
                   << vit_parity_u32(BitAnd(trellis_full(s, u), VIT_GEN0)),
                      vit_parity_u32(BitAnd(trellis_full(s, u), VIT_GEN1)) >>]]

\* _euclid_pair: expected bit 0 -> +1, bit 1 -> -1, squared error
euclid_pair(r0, r1, e0, e1) ==
  LET t0 == IF e0 = 0 THEN 1 ELSE -1
      t1 == IF e1 = 0 THEN 1 ELSE -1
  IN  (r0 - t0) * (r0 - t0) + (r1 - t1) * (r1 - t1)

\* lines 138-160: one branch of state s; a = [pm_new, prev, dec]
vit_branch(a, s, u, cost_s, r0, r1) ==
  LET ns == trellis_ns[s][u]
      c  == cost_s + euclid_pair(r0, r1, trellis_obit[s][u][1], trellis_obit[s][u][2])
  IN  IF c < a.pm_new[ns]
      THEN [pm_new |-> [a.pm_new EXCEPT ![ns] = c],
            prev   |-> [a.prev EXCEPT ![ns] = s],
            dec    |-> [a.dec EXCEPT ![ns] = u]]
      ELSE a

\* lines 133-160: the loop over the states lo, lo+1, ..., hi (in that order)
\* for one symbol, starting from a.  The range is halved and the second half
\* is run on the value x the first half returns, which keeps the evaluation
\* shallow; the order of the updates is the source's.
RECURSIVE vit_states(_, _, _, _, _, _)
vit_states(lo, hi, pm, a, r0, r1) ==
  IF lo = hi
  THEN IF pm[lo] >= BIG THEN a
       ELSE vit_branch(vit_branch(a, lo, 0, pm[lo], r0, r1), lo, 1, pm[lo], r0, r1)
  ELSE CHOOSE r \in {vit_states(((lo + hi) \div 2) + 1, hi, pm, x, r0, r1) :
                        x \in {vit_states(lo, (lo + hi) \div 2, pm, a, r0, r1)}} : TRUE

\* lines 122-162: one symbol (r0, r1) applied to p = [pm, prevs, decs]
vit_symbol(p, r0, r1) ==
  LET a == vit_states(0, NSTATES - 1, p.pm,
              [pm_new |-> [s \in 0..(NSTATES - 1) |-> BIG],
               prev   |-> [s \in 0..(NSTATES - 1) |-> 0],
               dec    |-> [s \in 0..(NSTATES - 1) |-> 0]], r0, r1)
  IN  [pm |-> a.pm_new, prevs |-> Append(p.prevs, a.prev),
       decs |-> Append(p.decs, a.dec)]

\* lines 114-162: path metrics, prev_state rows and decided_bit rows after the
\* first t symbols; symbol t is applied to the value p of the first t - 1
RECURSIVE vit_forward(_, _)
vit_forward(t, soft) ==
  IF t = 0
  THEN [pm |-> [s \in 0..(NSTATES - 1) |-> IF s = 0 THEN 0 ELSE BIG],
        prevs |-> <<>>, decs |-> <<>>]
  ELSE CHOOSE r \in {vit_symbol(p, soft[2 * t - 1], soft[2 * t]) :
                        p \in {vit_forward(t - 1, soft)}} : TRUE

\* np.argmin: the first index holding the minimum
argmin(pm) ==
  CHOOSE s \in 0..(NSTATES - 1) :
     /\ \A q \in 0..(NSTATES - 1) : pm[s] <= pm[q]
     /\ \A q \in 0..(s - 1) : pm[q] > pm[s]

\* lines 164-171: traceback from symbol t down to 1
RECURSIVE vit_traceback(_, _, _, _)
vit_traceback(t, s, prevs, decs) ==
  IF t = 0 THEN <<>>
  ELSE Append(vit_traceback(t - 1, prevs[t][s], prevs, decs), decs[t][s])

\* lines 173-180: pack MSB-first, zero padded to whole bytes
pack_bits(bits) ==
  LET nbytes == (Len(bits) + 7) \div 8
      bit(i) == IF i <= Len(bits) THEN bits[i] ELSE 0
  IN  [k \in 1..nbytes |->
         bit(8 * k - 7) * 128 + bit(8 * k - 6) * 64 + bit(8 * k - 5) * 32
         + bit(8 * k - 4) * 16 + bit(8 * k - 3) * 8 + bit(8 * k - 2) * 4
         + bit(8 * k - 1) * 2 + bit(8 * k)]

\* _viterbi_soft_decode
viterbi_soft_decode(soft_bits) ==
  LET soft == IF Len(soft_bits) % 2 = 1 THEN SubSeq(soft_bits, 1, Len(soft_bits) - 1)
              ELSE soft_bits
      f    == vit_forward(Len(soft) \div 2, soft)
  IN  pack_bits(vit_traceback(Len(soft) \div 2, argmin(f.pm), f.prevs, f.decs))

\* ---- the channel: coded bit 0 -> +1, coded bit 1 -> -1, one length tag per
\* frame at its first soft value, value = number of coded bits
Softs(b) == LET c == EncodeFrame(b) IN [i \in 1..Len(c) |-> 1 - 2 * c[i]]
RECURSIVE SoftStream(_)
SoftStream(fs) == IF fs = <<>> THEN <<>> ELSE Softs(Head(fs)) \o SoftStream(Tail(fs))
RECURSIVE SoftTags(_, _)
SoftTags(fs, off) ==
  IF fs = <<>> THEN <<>>
  ELSE << [offset |-> off, value |-> 16 * Len(Head(fs))] >>
       \o SoftTags(Tail(fs), off + 16 * Len(Head(fs)))

\* _enqueue_len_tags: values of the tags in the window [nread, nread + n)
enqueue_len_tags(queue, nread, n) ==
  LET hit(t) == t.offset >= nread /\ t.offset < nread + n /\ t.value > 0
      sel    == SelectSeq(vt_itags, hit)
  IN  queue \o [i \in 1..Len(sel) |-> sel[i].value]

\* _process_frames_to_outbuf; d = [inbuf, queue, outbuf, pending]
RECURSIVE process_frames_to_outbuf(_)
process_frames_to_outbuf(d) ==
  IF d.queue = <<>> THEN d
  ELSE LET need_bits == Head(d.queue)
       IN  IF Len(d.inbuf) < need_bits THEN d
           ELSE process_frames_to_outbuf(
                  [inbuf   |-> Drop(d.inbuf, need_bits),
                   queue   |-> Tail(d.queue),
                   outbuf  |-> d.outbuf \o viterbi_soft_decode(Slice(d.inbuf, 0, need_bits)),
                   pending |-> Append(d.pending, need_bits \div 16)])

\* work, lines 219-228: ingest n_in soft values
vit_ingest(n_in) ==
  IF n_in = 0
  THEN [inbuf |-> vt_inbuf, queue |-> vt_frame_queue_bits,
        outbuf |-> vt_outbuf, pending |-> vt_pending_out_frames]
  ELSE process_frames_to_outbuf(
         [inbuf   |-> vt_inbuf \o Slice(vt_softs, vt_nread, vt_nread + n_in),
          queue   |-> enqueue_len_tags(vt_frame_queue_bits, vt_nread, n_in),
          outbuf  |-> vt_outbuf,
          pending |-> vt_pending_out_frames])

\* work, lines 239-258: e = [outbuf, pending, head, out, tags, produced, space]
RECURSIVE vit_emit(_)
vit_emit(e) ==
  IF ~(e.space > 0 /\ e.outbuf # <<>>) THEN e
  ELSE IF e.head = 0 /\ e.pending = <<>> THEN e
  ELSE LET head1 == IF e.head = 0 THEN Head(e.pending) ELSE e.head
           tags1 == IF e.head = 0
                    THEN Append(e.tags, [offset |-> Len(vt_out) + e.produced,
                                         value |-> head1])
                    ELSE e.tags
           chunk == Min(Min(e.space, head1), Len(e.outbuf))
           head2 == head1 - chunk
       IN  IF chunk <= 0 THEN [e EXCEPT !.head = head1, !.tags = tags1]
           ELSE vit_emit([outbuf   |-> Drop(e.outbuf, chunk),
                          pending  |-> IF head2 = 0 /\ e.pending # <<>>
                                       THEN Tail(e.pending) ELSE e.pending,
                          head     |-> head2,
                          out      |-> e.out \o Slice(e.outbuf, 0, chunk),
                          tags     |-> tags1,
                          produced |-> e.produced + chunk,
                          space    |-> e.space - chunk])

\* work(input_items, output_items) after the ingest d of its input window
vit_work(d, n_in, space) ==
  LET e == IF d.outbuf = <<>>
           THEN [outbuf |-> d.outbuf, pending |-> d.pending, head |-> vt_head_remaining,
                 out |-> <<>>, tags |-> <<>>, produced |-> 0, space |-> space]
           ELSE vit_emit([outbuf |-> d.outbuf, pending |-> d.pending,
                          head |-> vt_head_remaining, out |-> <<>>, tags |-> <<>>,
                          produced |-> 0, space |-> space])
  IN  /\ vt_inbuf' = d.inbuf
      /\ vt_frame_queue_bits' = d.queue
      /\ vt_outbuf' = e.outbuf
      /\ vt_pending_out_frames' = e.pending
      /\ vt_head_remaining' = e.head
      /\ vt_out' = vt_out \o e.out
      /\ vt_otags' = vt_otags \o e.tags
      /\ vt_nread' = vt_nread + n_in
      /\ UNCHANGED <<vt_frames, vt_softs, vt_itags>>

\* input windows offered by the scheduler
VitWindows ==
  LET rem == Len(vt_softs) - vt_nread
  IN  {n \in {0, 1, 7, 16, 17, rem} : n <= rem}

ViterbiWork ==
  \E n_in \in VitWindows :
    \E d \in {vit_ingest(n_in)} :
      \E space \in 1..MaxVitRoom :
         /\ Len(vt_otags) < MaxVitTags
         /\ vit_work(d, n_in, space)

\* the frames sent: one and two bytes long, values from 0x01 to 0xFF
VitFrames == {<<1>>, <<16>>, <<255>>, <<16, 192>>}

ViterbiStart ==
  /\ vt_nread = 0
  /\ vt_inbuf = <<>>
  /\ vt_outbuf = <<>>
  /\ vt_frame_queue_bits = <<>>
  /\ vt_pending_out_frames = <<>>
  /\ vt_head_remaining = 0
  /\ vt_out = <<>>
  /\ vt_otags = <<>>

ViterbiInit ==
  /\ vt_frames \in UNION {[1..n -> VitFrames] : n \in 1..MaxVitFrames}
  /\ vt_softs = SoftStream(vt_frames)
  /\ vt_itags = SoftTags(vt_frames, 0)
  /\ ViterbiStart

\* ---- input frames whose length tag declares any positive number of coded
\* bits: frame k is the first 16 * Len(b) - cut coded bits of an encoded frame b
BitFrames == {<<16>>, <<16, 192>>}
BitCuts   == {0, 8}
CutSofts(f) == SubSeq(Softs(f.b), 1, 16 * Len(f.b) - f.cut)
RECURSIVE CutStream(_)
CutStream(fs) == IF fs = <<>> THEN <<>> ELSE CutSofts(Head(fs)) \o CutStream(Tail(fs))
RECURSIVE CutTags(_, _)
CutTags(fs, off) ==
  IF fs = <<>> THEN <<>>
  ELSE << [offset |-> off, value |-> Len(CutSofts(Head(fs)))] >>
       \o CutTags(Tail(fs), off + Len(CutSofts(Head(fs))))

ViterbiBitsInit ==
  /\ vt_frames \in UNION {[1..n -> [b : BitFrames, cut : BitCuts]] : n \in 1..MaxVitFrames}
  /\ vt_softs = CutStream(vt_frames)
  /\ vt_itags = CutTags(vt_frames, 0)
  /\ ViterbiStart

ViterbiIdle == vt_frames = <<>> /\ vt_softs = <<>> /\ vt_itags = <<>> /\ ViterbiStart

\* ================================================================ trellis construction
\* Rx_TM/new_rx_chain_v0_epy_block_0.py, __init__ lines 45-48 and _build_trellis:
\* the two tables start as zeros and the double loop fills one entry (s, u)
\* per iteration
VARIABLES
  tb_pos,   \* iterations of the double loop done: entry (s, u) is number 2 s + u
  tb_ns,    \* self._trellis_ns
  tb_obit   \* self._trellis_obit

tbvars == <<tb_pos, tb_ns, tb_obit>>

\* lines 73-79: the loop body for (s, u)
build_trellis_entry(s, u) ==
  LET maskK == (2 ^ VIT_K) - 1
      maskS == (2 ^ (VIT_K - 1)) - 1
      full  == BitAnd((s * 2) + u, maskK)
      ns    == BitAnd(full \div 2, maskS)
      b0    == vit_parity_u32(BitAnd(full, VIT_GEN0))
      b1    == vit_parity_u32(BitAnd(full, VIT_GEN1))
  IN  /\ tb_ns' = [tb_ns EXCEPT ![s][u] = ns]
      /\ tb_obit' = [tb_obit EXCEPT ![s][u] = <<b0, b1>>]
      /\ tb_pos' = tb_pos + 1

BuildTrellisStep ==
  /\ tb_pos < 2 * NSTATES
  /\ build_trellis_entry(tb_pos \div 2, tb_pos % 2)

\* lines 46-47: np.zeros tables, loop not started
TrellisInit ==
  /\ tb_pos = 0
  /\ tb_ns = [s \in 0..(NSTATES - 1) |-> [u \in 0..1 |-> 0]]
  /\ tb_obit = [s \in 0..(NSTATES - 1) |-> [u \in 0..1 |-> <<0, 0>>]]

\* the tables of a constructed decoder
TrellisBuilt ==
  /\ tb_pos = 2 * NSTATES
  /\ tb_ns = trellis_ns
  /\ tb_obit = trellis_obit

\* ================================================================ transmit chain wiring
\* sync_coding/sync_coding_v0.py, lines 353-378
VARIABLES
  tx_chain   \* TRUE when the stages are connected: tm_framer -> tm_rand ->
             \* rs_I -> asm_ins -> conv_k7r12, each reading what the stage
             \* ahead of it has written; FALSE when a stage runs on its own

chvars == <<tx_chain>>

\* I_RS = 5, and frame_len = 1115, the default of the framer's constructor
I_RS == 5
TM_FRAME_LEN == 1115

\* ================================================================ randomizer
\* sync_coding/sync_coding_v0_epy_block_1.py (kind "A": re-emits the length tag)
\* sync_coding/default_epy_block_1.py        (kind "B": forwards every tag)
\* Two instances in a row: the first reads the tagged frames, the second reads
\* the bytes and tags the first has written.
VARIABLES
  rz_cfg,   \* seed, restart_per_frame, enabled (both instances), lens = lengths
            \* of the contiguous input frames, kind2 = kind of the second instance,
            \* marks = offsets of the input tags whose key is not the length key
  rz1,      \* first instance (kind "A"): nread = nitems_read(0), lfsr = _lfsr,
            \* left = _frame_bytes_left, out / otags = bytes and length tags
            \* written, omarks = offsets of the tags of another key added on
            \* the output, calls = invocations that produced output (history)
  rz2       \* second instance, same fields

rzvars == <<rz_cfg, rz1, rz2>>

\* the frames offered to the first instance: arbitrary bytes, one length tag
\* per frame at its first byte
RzIn == [i \in 1..SumSeq(rz_cfg.lens) |-> ((i * 37) + 5) % 256]
RzOff(k) == SumSeq(SubSeq(rz_cfg.lens, 1, k - 1))
RzTags == [k \in 1..Len(rz_cfg.lens) |-> [offset |-> RzOff(k), value |-> rz_cfg.lens[k]]]

\* _step_lfsr: taps at bit 14 and bit 13, shift left, feedback into bit 0
step_lfsr(state) ==
  LET new_bit == (((state \div 16384) % 2) + ((state \div 8192) % 2)) % 2
  IN  ((state * 2) % 32768) + new_bit

\* _next_pn_byte: k more iterations of the loop; p = [byte, lfsr]
RECURSIVE pn_loop(_, _)
pn_loop(p, k) ==
  IF k = 0 THEN p
  ELSE pn_loop([byte |-> ((p.byte * 2) + ((p.lfsr \div 16384) % 2)) % 256,
                lfsr |-> step_lfsr(p.lfsr)], k - 1)
next_pn_byte(lfsr) == pn_loop([byte |-> 0, lfsr |-> lfsr], 8)

\* mutant: the register is left as it is at a frame start
keep_pn(lfsr) == lfsr
\* _reset_pn
reset_pn(lfsr) == rz_cfg.seed

\* process_chunk, the loop "out[produced+i] = inp[cursor+i] ^ self._next_pn_byte()"
\* over the bytes d; returns [out, lfsr]
RECURSIVE rand_bytes(_, _)
rand_bytes(d, lfsr) ==
  IF d = <<>> THEN [out |-> <<>>, lfsr |-> lfsr]
  ELSE LET p == next_pn_byte(lfsr)
           r == rand_bytes(Tail(d), p.lfsr)
       IN  [out |-> <<BitXor(Head(d), p.byte)>> \o r.out, lfsr |-> r.lfsr]

\* the bytes written for the bytes d. In the connected chain only the framing
\* is followed: a byte is marked (complemented) instead of being XORed with
\* its PN byte, which is the subject of the randomizer on its own
rz_payload(d, lfsr) ==
  IF tx_chain
  THEN CHOOSE r \in {[out |-> [i \in 1..Len(x) |-> 255 - x[i]], lfsr |-> lfsr] : x \in {d}} : TRUE
  ELSE rand_bytes(d, lfsr)

\* process_chunk(chunk_len) inside general_work; inp = the input window,
\* w = [produced, cursor, lfsr, left, out, tags]
process_chunk(w, chunk_len, inp, n_out) ==
  IF chunk_len <= 0 THEN w
  ELSE LET n == Min(chunk_len, n_out - w.produced)
       IN  IF n <= 0 THEN w
           ELSE IF ~rz_cfg.enabled \/ w.left <= 0
           THEN [w EXCEPT !.out = w.out \o Slice(inp, w.cursor, w.cursor + n),
                          !.produced = w.produced + n, !.cursor = w.cursor + n]
           ELSE LET to_rand == Min(n, w.left)
                    r == rz_payload(Slice(inp, w.cursor, w.cursor + to_rand), w.lfsr)
                IN  [w EXCEPT !.out = w.out \o r.out
                                       \o Slice(inp, w.cursor + to_rand, w.cursor + n),
                              !.lfsr = r.lfsr,
                              !.left = w.left - to_rand,
                              !.produced = w.produced + n, !.cursor = w.cursor + n]

\* mutant: a length tag on the first item of the window is not taken
consume_length_tags_rel0(tags, nread, n_input) ==
  LET hit(t) == t.offset > nread /\ t.offset < nread + n_input /\ t.value > 0
      sel    == SelectSeq(tags, hit)
  IN  [i \in 1..Len(sel) |-> <<sel[i].offset - nread, sel[i].value>>]
\* _consume_length_tags: (rel_offset, frame_len) of the length tags in the
\* window, sorted by offset (the tags of a stream are in offset order)
consume_length_tags(tags, nread, n_input) ==
  LET hit(t) == t.offset >= nread /\ t.offset < nread + n_input /\ t.value > 0
      sel    == SelectSeq(tags, hit)
  IN  [i \in 1..Len(sel) |-> <<sel[i].offset - nread, sel[i].value>>]

\* _forward_tags(n_input, produced = 0), the tags with the length key: kind "A"
\* skips them, kind "B" forwards those of the window to nitems_written + rel
forward_tags(kind, tags, nread, n_input, nwritten) ==
  IF kind = "A" THEN <<>>
  ELSE LET hit(t) == t.offset >= nread /\ t.offset < nread + n_input
           sel    == SelectSeq(tags, hit)
       IN  [i \in 1..Len(sel) |-> [offset |-> nwritten + (sel[i].offset - nread),
                                   value |-> sel[i].value]]

\* _forward_tags(n_input, produced = 0), the tags with another key, given by
\* their offsets: both kinds add every one of the window [nread, nread +
\* n_input) to the output at nitems_written + rel
forward_marks(marks, nread, n_input, nwritten) ==
  LET hit(m) == m >= nread /\ m < nread + n_input
      sel    == SelectSeq(marks, hit)
  IN  [i \in 1..Len(sel) |-> nwritten + (sel[i] - nread)]

\* general_work, "Start a new frame exactly here": reseed, set the countdown,
\* and (kind "A") re-emit the length tag at the output head
start_frame(kind, w, L, nwritten) ==
  [w EXCEPT !.lfsr = IF rz_cfg.restart THEN reset_pn(w.lfsr) ELSE w.lfsr,
            !.left = L,
            !.tags = IF kind = "A"
                     THEN Append(w.tags, [offset |-> nwritten + w.produced,
                                          value |-> L])
                     ELSE w.tags]

\* general_work, the loop over starts, with its break when the output is full
RECURSIVE walk_starts(_, _, _, _, _, _)
walk_starts(kind, w, starts, inp, n_out, nwritten) ==
  IF starts = <<>> THEN w
  ELSE LET pre == Head(starts)[1] - w.cursor
           next(w2)  == walk_starts(kind, w2, Tail(starts), inp, n_out, nwritten)
           after(w1) == IF pre > 0 /\ w1.produced >= n_out THEN w1
                        ELSE Strict(start_frame(kind, w1, Head(starts)[2], nwritten),
                                    next)
       IN  Strict(IF pre > 0 THEN process_chunk(w, pre, inp, n_out) ELSE w, after)

\* general_work of one instance: st = its state, src / tags / marks = the
\* stream, the length tags and the other tags on its input port; returns its
\* next state
rz_general_work(kind, st, src, tags, marks, n_in, n_out) ==
  IF n_in = 0 \/ n_out = 0 THEN st
  ELSE LET nw  == Len(st.out)
           w0  == [produced |-> 0, cursor |-> 0, lfsr |-> st.lfsr, left |-> st.left,
                   out |-> <<>>, tags |-> forward_tags(kind, tags, st.nread, n_in, nw)]
           done(w2) ==
             [nread |-> st.nread + w2.cursor, lfsr |-> w2.lfsr, left |-> w2.left,
              out |-> st.out \o w2.out, otags |-> st.otags \o w2.tags,
              omarks |-> st.omarks \o forward_marks(marks, st.nread, n_in, nw),
              calls |-> st.calls + 1]
           run(inp) ==
             LET tail(w1) == IF w1.produced < n_out /\ w1.cursor < n_in
                             THEN process_chunk(w1, n_in - w1.cursor, inp, n_out)
                             ELSE w1
                 w1 == Strict(w0, LAMBDA w : walk_starts(kind, w,
                                  consume_length_tags(tags, st.nread, n_in),
                                  inp, n_out, nw))
             IN  Strict(Strict(w1, tail), done)
       IN  Strict(Slice(src, st.nread, st.nread + n_in), run)

\* the scheduler runs the first instance on some of the unread frame bytes
Rand1Work ==
  \E n_in \in 0..(Len(RzIn) - rz1.nread), n_out \in 0..MaxRzRoom :
     \E st \in {rz_general_work("A", rz1, RzIn, RzTags, rz_cfg.marks, n_in, n_out)} :
        /\ st # rz1
        /\ rz1' = st
        /\ UNCHANGED <<rz_cfg, rz2>>

\* the scheduler runs the second instance on some of what the first has written
Rand2Work ==
  \E n_in \in 0..(Len(rz1.out) - rz2.nread), n_out \in 0..MaxRzRoom :
     \E st \in {rz_general_work(rz_cfg.kind2, rz2, rz1.out, rz1.otags, rz1.omarks,
                                       n_in, n_out)} :
        /\ st # rz2
        /\ rz2' = st
        /\ UNCHANGED <<rz_cfg, rz1>>

\* state of an instance after __init__
RzStart(seed) == [nread |-> 0, lfsr |-> seed, left |-> 0, out |-> <<>>,
                  otags |-> <<>>, omarks |-> <<>>, calls |-> 0]

RzSeeds == {32767, 21845}
RzStreams ==
  {l \in UNION {[1..n -> 1..MaxRzLen] : n \in 1..MaxRzFrames} : SumSeq(l) <= MaxRzStream}

RandomizerInit ==
  /\ rz_cfg \in [seed : RzSeeds, restart : {TRUE}, enabled : {TRUE},
                 lens : RzStreams, kind2 : {"A", "B"}, marks : {<<>>}]
  /\ rz1 = RzStart(rz_cfg.seed)
  /\ rz2 = RzStart(rz_cfg.seed)

\* streams that also carry tags of another key: on any non-empty set of
\* their bytes, one tag per byte, in offset order
RzMarkSeqs(len) ==
  {m \in UNION {[1..n -> 0..(len - 1)] : n \in 1..len} :
      \A i \in 1..(Len(m) - 1) : m[i] < m[i + 1]}
RandomizerTagsInit ==
  /\ rz_cfg \in {c \in [seed : {32767}, restart : {TRUE}, enabled : {TRUE},
                         lens : RzStreams, kind2 : {"A", "B"},
                         marks : RzMarkSeqs(MaxRzStream)] :
                   \A i \in 1..Len(c.marks) : c.marks[i] < SumSeq(c.lens)}
  /\ rz1 = RzStart(rz_cfg.seed)
  /\ rz2 = RzStart(rz_cfg.seed)

RandomizerIdle ==
  /\ rz_cfg = [seed |-> 32767, restart |-> TRUE, enabled |-> TRUE,
               lens |-> <<>>, kind2 |-> "A", marks |-> <<>>]
  /\ rz1 = RzStart(32767)
  /\ rz2 = RzStart(32767)

\* ================================================================ Reed-Solomon stage
\* sync_coding/default_epy_block_4.py: RS(255,223), interleaving depth I
VARIABLES
  rs_cfg,    \* I = interleaving depth (tm_len = 223 I), pats = the data pattern
             \* of each input frame, lead = untagged bytes ahead of the first frame
  rs_nread,  \* nitems_read(0)
  rs_out,    \* every byte written to output port 0
  rs_otags,  \* every tag added on output port 0, in order
  rs_last    \* history: what the last invocation returned and consumed

rsvars == <<rs_cfg, rs_nread, rs_out, rs_otags, rs_last>>

\* ---- RS(255,223) constants, __init__ lines 26-28 and 35
RS_N    == 255
RS_K    == 223
RS_NPAR == RS_N - RS_K
RS_PRIM == 285

\* _gf_init, lines 49-51: x <<= 1; if x & 0x100: x ^= prim
gf_double(x) == IF 2 * x >= 256 THEN BitXor(2 * x, RS_PRIM) ELSE 2 * x

\* _gf_init, lines 45-51: the n successive values x, 2x, 4x, ... stored in
\* gf_exp; the run is cut in two and the second half starts from the
\* successor of the last value of the first
RECURSIVE gf_exp_run(_, _)
gf_exp_run(x, n) ==
  IF n = 1 THEN <<x>>
  ELSE CHOOSE r \in {a \o gf_exp_run(gf_double(a[Len(a)]), n - (n \div 2)) :
                        a \in {gf_exp_run(x, n \div 2)}} : TRUE

\* self.gf_exp[0..511] (index i is element i + 1), lines 47 and 53-54
gf_exp_tab ==
  CHOOSE tab \in {a \o a \o SubSeq(a, 1, 2) : a \in {gf_exp_run(1, 255)}} : TRUE
\* self.gf_log[1..255], line 48
gf_log_tab ==
  CHOOSE tab \in {[x \in 1..255 |-> CHOOSE i \in 0..254 : gf_exp_tab[i + 1] = x]} : TRUE

gf_exp(i) == gf_exp_tab[i + 1]
gf_log(x) == gf_log_tab[x]

\* a ^ b on bytes, tabulated once
byte_xor_tab == [a \in 0..255 |-> [b \in 0..255 |-> BitXor(a, b)]]
byte_xor(a, b) == byte_xor_tab[a][b]

\* _gf_add
gf_add(a, b) == byte_xor(a, b)
\* _gf_mul
gf_mul(a, b) == IF a = 0 \/ b = 0 THEN 0 ELSE gf_exp(gf_log(a) + gf_log(b))

\* _poly_mul: r[i+j] ^= p[i] * q[j]; coefficient k (from 1) of the product
\* collects the terms with i + j = k + 1
RECURSIVE poly_mul_coef(_, _, _, _)
poly_mul_coef(p, q, k, i) ==
  IF i > Len(p) THEN 0
  ELSE LET j == k + 1 - i
       IN  gf_add(IF j >= 1 /\ j <= Len(q) THEN gf_mul(p[i], q[j]) ELSE 0,
                  poly_mul_coef(p, q, k, i + 1))
poly_mul(p, q) ==
  CHOOSE r \in {[k \in 1..(Len(p) + Len(q) - 1) |-> poly_mul_coef(p, q, k, 1)]} : TRUE

\* _rs_generator: g = (x - a^1)(x - a^2)...(x - a^nsym), MSB first
RECURSIVE rs_generator(_)
rs_generator(nsym) ==
  IF nsym = 0 THEN <<1>>
  ELSE CHOOSE g \in {poly_mul(h, <<1, gf_exp(nsym)>>) : h \in {rs_generator(nsym - 1)}} : TRUE

\* self.gen, line 39
rs_gen == rs_generator(RS_NPAR)

\* mutant: the generator coefficients are taken one place too high
rs_encode_byte_gen0(rem, d) ==
  LET coef == byte_xor(d, rem[1])
  IN  IF coef # 0
      THEN [j \in 1..RS_NPAR |->
              byte_xor(IF j < RS_NPAR THEN rem[j + 1] ELSE 0, gf_mul(rs_gen[j], coef))]
      ELSE [j \in 1..RS_NPAR |-> IF j < RS_NPAR THEN rem[j + 1] ELSE 0]
\* _rs_encode_223_255, lines 102-108: one data byte d against remainder rem
rs_encode_byte(rem, d) ==
  LET coef == byte_xor(d, rem[1])
  IN  IF coef # 0
      THEN [j \in 1..RS_NPAR |->
              byte_xor(IF j < RS_NPAR THEN rem[j + 1] ELSE 0, gf_mul(rs_gen[j + 1], coef))]
      ELSE [j \in 1..RS_NPAR |-> IF j < RS_NPAR THEN rem[j + 1] ELSE 0]

\* _rs_encode_223_255, the loop over data[lo..hi] starting from rem; the
\* range is cut in two and the second half continues from the remainder the
\* first half leaves
RECURSIVE rs_encode_run(_, _, _, _)
rs_encode_run(data, lo, hi, rem) ==
  IF lo > hi THEN rem
  ELSE IF lo = hi THEN CHOOSE r \in {rs_encode_byte(rem, data[lo])} : TRUE
  ELSE CHOOSE r \in {rs_encode_run(data, ((lo + hi) \div 2) + 1, hi, x) :
                        x \in {rs_encode_run(data, lo, (lo + hi) \div 2, rem)}} : TRUE

\* _rs_encode_223_255: the parity bytes of a 223-byte message
rs_encode_223_255(data) == rs_encode_run(data, 1, Len(data), Zeros(RS_NPAR))

\* ---- the input stream: lead untagged bytes, then contiguous frames, each
\* with a length tag equal to its number of bytes at its first byte.  Frames
\* of pattern 1 and 2 have tm_len bytes; a frame of pattern 3 is one
\* byte shorter and a frame of pattern 4 one byte longer than tm_len
rs_tm_len == RS_K * rs_cfg.I
RsByte(pat, i) ==
  IF pat = 1 THEN ((i * 7) + 3) % 256
  ELSE IF pat = 2 THEN ((i * i) + (5 * i) + 77) % 256
  ELSE ((i * 11) + 9) % 256
RsFrameLen(k) ==
  IF rs_cfg.pats[k] = 3 THEN rs_tm_len - 1
  ELSE IF rs_cfg.pats[k] = 4 THEN rs_tm_len + 1
  ELSE rs_tm_len
RsFrame(k) == [i \in 1..RsFrameLen(k) |-> RsByte(rs_cfg.pats[k], i)]
RECURSIVE RsFrameOff(_)
RsFrameOff(k) == IF k <= 1 THEN rs_cfg.lead ELSE RsFrameOff(k - 1) + RsFrameLen(k - 1)
RsInLen == IF tx_chain THEN Len(rz1.out)
           ELSE RsFrameOff(Len(rs_cfg.pats) + 1)
\* the frame that holds the byte at stream offset off
RsFrameAt(off) ==
  CHOOSE k \in 1..Len(rs_cfg.pats) : RsFrameOff(k) <= off /\ off < RsFrameOff(k + 1)
RsInByte(off) ==
  IF tx_chain THEN rz1.out[off + 1]
  ELSE IF off < rs_cfg.lead THEN 170
  ELSE \* byte off - RsFrameOff(k) of the frame k that holds it
       RsByte(rs_cfg.pats[RsFrameAt(off)], off - RsFrameOff(RsFrameAt(off)) + 1)
RsInTags ==
  IF tx_chain THEN rz1.otags
  ELSE [k \in 1..Len(rs_cfg.pats) |-> [offset |-> RsFrameOff(k), value |-> RsFrameLen(k)]]

\* general_work, lines 138-146: branch j (from 0) gets tm[j], tm[j+I], ...
rs_branch(tm, j) == [n \in 1..RS_K |-> tm[((n - 1) * rs_cfg.I) + j + 1]]
\* lines 148-153: the codeword of branch j, data then parity
rs_codeword(tm, j) ==
  CHOOSE cw \in {b \o rs_encode_223_255(b) : b \in {rs_branch(tm, j)}} : TRUE
\* mutant: the codewords are written one after the other
rs_multiplex_seq(cws) ==
  [w \in 1..(RS_N * rs_cfg.I) |-> cws[((w - 1) \div RS_N) + 1][((w - 1) % RS_N) + 1]]
\* mutant: the round-robin starts at the second codeword
rs_multiplex_rot(cws) ==
  [w \in 1..(RS_N * rs_cfg.I) |-> cws[(w % rs_cfg.I) + 1][((w - 1) \div rs_cfg.I) + 1]]
\* lines 160-164: out[sym_idx * I + j] = codewords[j][sym_idx]
rs_multiplex(cws) ==
  [w \in 1..(RS_N * rs_cfg.I) |-> cws[((w - 1) % rs_cfg.I) + 1][((w - 1) \div rs_cfg.I) + 1]]
\* lines 135-164: the codeblock of the TM frame at the head of the window
rs_codeblock(tm) ==
  CHOOSE blk \in {rs_multiplex(cws) :
                    cws \in {[j \in 1..rs_cfg.I |-> rs_codeword(tm, j - 1)]}} : TRUE

\* mutant: the frame passes without its check symbols
rs_payload_bare(tm) == tm
\* the codeblock written for tm. In the connected chain only the framing is
\* followed: the frame bytes and 32 I zero bytes in the place of the parity
rs_payload(tm) ==
  IF tx_chain THEN tm \o Zeros(RS_NPAR * rs_cfg.I) ELSE rs_codeblock(tm)

\* general_work(input_items, output_items); room = len(output_items[0])
rs_general_work(n_in, room) ==
  LET hit(t)  == t.offset >= rs_nread /\ t.offset < rs_nread + n_in
      tags    == SelectSeq(RsInTags, hit)
      rel     == tags[1].offset - rs_nread
      L       == tags[1].value
      out_len == RS_N * rs_cfg.I
      ret0    == /\ rs_last' = [ret |-> 0, consumed |-> 0]
                 /\ UNCHANGED <<rs_cfg, rs_nread, rs_out, rs_otags>>
  IN  IF n_in = 0 \/ room = 0 THEN ret0
      ELSE IF tags = <<>> THEN ret0
      ELSE IF rel > 0
           THEN /\ rs_nread' = rs_nread + rel
                /\ rs_last' = [ret |-> 0, consumed |-> rel]
                /\ UNCHANGED <<rs_cfg, rs_out, rs_otags>>
      ELSE IF L < rs_tm_len \/ n_in < rs_tm_len THEN ret0
      ELSE IF room < out_len THEN ret0
      ELSE /\ rs_out' = rs_out \o rs_payload([i \in 1..rs_tm_len |->
                                                  RsInByte(rs_nread + i - 1)])
           /\ rs_otags' = Append(rs_otags, [offset |-> Len(rs_out), value |-> out_len])
           /\ rs_nread' = rs_nread + rs_tm_len
           /\ rs_last' = [ret |-> out_len, consumed |-> rs_tm_len]
           /\ UNCHANGED rs_cfg

\* windows the scheduler offers: nothing, one byte, one byte short of a frame,
\* everything unread; no room, one byte short of a codeblock, a codeblock
RsWork ==
  \E n_in \in {n \in {0, 1, rs_tm_len - 1, RsInLen - rs_nread} : n <= RsInLen - rs_nread},
     room \in {0, (RS_N * rs_cfg.I) - 1, RS_N * rs_cfg.I} :
        rs_general_work(n_in, room)

RsStart ==
  /\ rs_nread = 0
  /\ rs_out = <<>>
  /\ rs_otags = <<>>
  /\ rs_last = [ret |-> 0, consumed |-> 0]

RsDepths   == {1, 2}
RsPatterns == {1, 2}
RsInit ==
  /\ rs_cfg \in [I : RsDepths, lead : {0, 1},
                 pats : UNION {[1..n -> RsPatterns] : n \in 1..MaxRsFrames}]
  /\ RsStart

\* streams in which at least one frame is not tm_len bytes long
RsTagPatterns == {1, 3, 4}
RsTagsInit ==
  /\ rs_cfg \in {c \in [I : {1}, lead : {0, 1},
                         pats : UNION {[1..n -> RsTagPatterns] : n \in 1..MaxRsTagFrames}] :
                   \E k \in 1..Len(c.pats) : c.pats[k] # 1}
  /\ RsStart

RsIdle == rs_cfg = [I |-> 1, lead |-> 0, pats |-> <<>>] /\ RsStart

\* ================================================================ interleaver
\* default_epy_block_4.py, lines 155-164, applied to codewords whose symbols
\* are labelled with the codeword they come from, and read back symbol by symbol
VARIABLES
  il_block,  \* the multiplexed codeblock of the labelled codewords (<<>> before)
  il_read    \* the codeblock position read (-1 before), and the label found there

ilvars == <<il_block, il_read>>

\* codeword j (from 0) of the labelled input: symbol n (from 0) is [cw, sym]
IlCodeword(j) == [n \in 1..RS_N |-> [cw |-> j, sym |-> n - 1]]

\* the multiplex loop on the I labelled codewords
IlMultiplex ==
  /\ il_block = <<>>
  /\ il_block' = rs_multiplex([j \in 1..rs_cfg.I |-> IlCodeword(j - 1)])
  /\ UNCHANGED il_read

\* the receiving side takes the symbol at codeblock position p (from 0);
\* one position is read per run
IlRead ==
  /\ il_block # <<>>
  /\ il_read.pos = -1
  /\ \E p \in 0..(Len(il_block) - 1) :
        il_read' = [pos |-> p, cw |-> il_block[p + 1].cw, sym |-> il_block[p + 1].sym]
  /\ UNCHANGED il_block

IlStart ==
  /\ il_block = <<>>
  /\ il_read = [pos |-> -1, cw |-> 0, sym |-> 0]

\* every interleaving depth up to MaxDepth
InterleaveInit ==
  /\ rs_cfg \in [I : 1..MaxDepth, lead : {0}, pats : {<<>>}]
  /\ RsStart
  /\ IlStart

InterleaveIdle == IlStart

\* ================================================================ ASM inserter
\* sync_coding/default_epy_block_2.py
VARIABLES
  as_cfg,    \* lens = lengths of the contiguous input frames, lead = untagged
             \* bytes ahead of the first frame
  as_nread,  \* nitems_read(0)
  as_out,    \* every byte written to output port 0
  as_otags,  \* every tag added on output port 0, in order
  as_last    \* history: what the last invocation returned and consumed

asvars == <<as_cfg, as_nread, as_out, as_otags, as_last>>

\* asm_word = (0x1A, 0xCF, 0xFC, 0x1D)
ASM_WORD == <<26, 207, 252, 29>>
\* mutant: the marker counts for no byte of the output frame
asm_len_none == Len(<<>>)
asm_len  == Len(ASM_WORD)

\* the input stream: the inserter copies bytes without reading them, so byte
\* i carries the label LabelBase + i; one length tag per frame at its first byte
AsmInLen == IF tx_chain THEN Len(rs_out) ELSE as_cfg.lead + SumSeq(as_cfg.lens)
AsmIn == IF tx_chain THEN rs_out ELSE [i \in 1..AsmInLen |-> LabelBase + i]
AsmOff(k) == as_cfg.lead + SumSeq(SubSeq(as_cfg.lens, 1, k - 1))
AsmInTags ==
  IF tx_chain THEN rs_otags
  ELSE [k \in 1..Len(as_cfg.lens) |-> [offset |-> AsmOff(k), value |-> as_cfg.lens[k]]]

\* mutant: the marker is written behind the frame
asm_frame_after(inp, L_in) == Slice(inp, 0, L_in) \o ASM_WORD
\* general_work, lines 59-62: the marker, then the frame bytes
asm_frame(inp, L_in) == ASM_WORD \o Slice(inp, 0, L_in)

\* general_work(input_items, output_items); room = len(output_items[0])
asm_general_work(n_in, room) ==
  LET hit(t) == t.offset >= as_nread /\ t.offset < as_nread + n_in
      tags   == SelectSeq(AsmInTags, hit)
      rel    == tags[1].offset - as_nread
      L_in   == tags[1].value
      L_out  == L_in + asm_len
      ret0   == /\ as_last' = [ret |-> 0, consumed |-> 0]
                /\ UNCHANGED <<as_cfg, as_nread, as_out, as_otags>>
  IN  IF n_in = 0 THEN ret0
      ELSE IF tags = <<>> THEN ret0
      ELSE IF rel > 0
           THEN /\ as_nread' = as_nread + rel
                /\ as_last' = [ret |-> 0, consumed |-> rel]
                /\ UNCHANGED <<as_cfg, as_out, as_otags>>
      ELSE IF n_in < L_in THEN ret0
      ELSE IF room < L_out THEN ret0
      ELSE /\ as_out' = as_out \o asm_frame(Slice(AsmIn, as_nread, as_nread + n_in), L_in)
           /\ as_otags' = Append(as_otags, [offset |-> Len(as_out), value |-> L_out])
           /\ as_nread' = as_nread + L_in
           /\ as_last' = [ret |-> L_out, consumed |-> L_in]
           /\ UNCHANGED as_cfg

AsmWork ==
  \E n_in \in 0..(AsmInLen - as_nread), room \in 0..(MaxAsmLen + asm_len) :
     asm_general_work(n_in, room)

AsmStart ==
  /\ as_nread = 0
  /\ as_out = <<>>
  /\ as_otags = <<>>
  /\ as_last = [ret |-> 0, consumed |-> 0]

AsmInit ==
  /\ as_cfg \in [lead : {0, 1},
                 lens : UNION {[1..n -> 1..MaxAsmLen] : n \in 1..MaxAsmFrames}]
  /\ AsmStart

AsmIdle == as_cfg = [lead |-> 0, lens |-> <<>>] /\ AsmStart

\* ================================================================ convolutional encoder stage
\* sync_coding/sync_coding_v0_epy_block_3.py, msb_first, reset_each_frame
VARIABLES
  ce_frames,             \* the tagged input frames (byte sequences)
  ce_gaps,               \* untagged bytes on the input ahead of each frame
  ce_nread,              \* input bytes consumed so far
  ce_inbuf,              \* self._inbuf
  ce_outbuf,             \* self._outbuf
  ce_frame_queue,        \* self._frame_queue
  ce_state,              \* self._state
  ce_pending_out_frames, \* self._pending_out_frames
  ce_head_remaining,     \* self._head_remaining
  ce_out,                \* every byte written to output port 0
  ce_otags               \* every tag added on output port 0, in order

cevars == <<ce_frames, ce_gaps, ce_nread, ce_inbuf, ce_outbuf, ce_frame_queue, ce_state,
            ce_pending_out_frames, ce_head_remaining, ce_out, ce_otags>>

\* input port 0: the frames back to back, one length tag at each first byte
\* a byte of the stream that no tag covers
GAP_BYTE == 170
EncIn ==
  IF tx_chain THEN as_out
  ELSE Flatten([k \in 1..Len(ce_frames) |-> Fill(GAP_BYTE, ce_gaps[k]) \o ce_frames[k]])
EncOff(k) == SumSeq([i \in 1..(k - 1) |-> ce_gaps[i] + Len(ce_frames[i])])
             + (IF k <= Len(ce_frames) THEN ce_gaps[k] ELSE 0)
EncInTags ==
  IF tx_chain THEN as_otags
  ELSE [k \in 1..Len(ce_frames) |-> [offset |-> EncOff(k), value |-> Len(ce_frames[k])]]

\* _bits_to_bytes, msb_first: zero padding to a whole byte, then packing
bits_to_bytes(bits) ==
  LET n      == Len(bits)
      pad    == (8 - (n % 8)) % 8
      padded == bits \o Zeros(pad)
  IN  [i \in 1..((n + pad) \div 8) |->
         (padded[8 * i - 7] * 128) + (padded[8 * i - 6] * 64) + (padded[8 * i - 5] * 32)
         + (padded[8 * i - 4] * 16) + (padded[8 * i - 3] * 8) + (padded[8 * i - 2] * 4)
         + (padded[8 * i - 1] * 2) + padded[8 * i]]

\* _conv_encode_bits, lines 86-87: the register behind the last bit of in_bits
RECURSIVE enc_shift(_, _)
enc_shift(in_bits, state) ==
  IF in_bits = <<>> THEN state
  ELSE enc_shift(Tail(in_bits), ((state * 2) + (Head(in_bits) % 2)) % (2 ^ ENC_K))

\* mutant: the register is carried into the next frame
enc_state_keep(in_bits, state) == enc_shift(in_bits, state)
\* _conv_encode_bits, lines 91-92: self._state behind a frame, reset_each_frame
enc_state_after(in_bits, state) == 0

\* _enqueue_len_tags: values of the tags in the window [nread, nread + n)
enc_enqueue_len_tags(queue, nread, n) ==
  LET hit(t) == t.offset >= nread /\ t.offset < nread + n /\ t.value > 0
      sel    == SelectSeq(EncInTags, hit)
  IN  queue \o [i \in 1..Len(sel) |-> sel[i].value]

\* the encoded bytes of a frame. In the connected chain only the framing is
\* followed: every frame byte is written twice
enc_payload(frame, state) ==
  IF tx_chain
  THEN CHOOSE e \in {[i \in 1..(2 * Len(x)) |-> x[(i + 1) \div 2] ] : x \in {frame}} : TRUE
  ELSE bits_to_bytes(conv_encode_bits(bytes_to_bits(frame), state))

\* _process_frames_to_outbuf; d = [inbuf, queue, outbuf, pending, state]
RECURSIVE enc_process_frames_to_outbuf(_)
enc_process_frames_to_outbuf(d) ==
  IF d.queue = <<>> THEN d
  ELSE LET need    == Head(d.queue)
           bits_in == bytes_to_bits(Slice(d.inbuf, 0, need))
           enc     == enc_payload(Slice(d.inbuf, 0, need), d.state)
       IN  IF Len(d.inbuf) < need THEN d
           ELSE Strict([inbuf   |-> Drop(d.inbuf, need),
                        queue   |-> Tail(d.queue),
                        outbuf  |-> d.outbuf \o enc,
                        pending |-> Append(d.pending, Len(enc)),
                        state   |-> enc_state_after(bits_in, d.state)],
                       enc_process_frames_to_outbuf)

\* work, lines 139-144: ingest n_in bytes
enc_ingest(n_in) ==
  IF n_in = 0
  THEN [inbuf |-> ce_inbuf, queue |-> ce_frame_queue, outbuf |-> ce_outbuf,
        pending |-> ce_pending_out_frames, state |-> ce_state]
  ELSE Strict([inbuf   |-> ce_inbuf \o Slice(EncIn, ce_nread, ce_nread + n_in),
               queue   |-> enc_enqueue_len_tags(ce_frame_queue, ce_nread, n_in),
               outbuf  |-> ce_outbuf,
               pending |-> ce_pending_out_frames,
               state   |-> ce_state],
              enc_process_frames_to_outbuf)

\* mutant: every tag of an invocation lands on its first output item
enc_tag_offset_call(ow, produced) == ow
\* work, line 165: the tag goes to the write head, ow + produced
enc_tag_offset(ow, produced) == ow + produced

\* work, lines 157-184: e = [outbuf, pending, head, out, tags, produced, space]
RECURSIVE enc_emit(_)
enc_emit(e) ==
  IF ~(e.space > 0 /\ e.outbuf # <<>>) THEN e
  ELSE IF e.head = 0 /\ e.pending = <<>> THEN e
  ELSE LET head1 == IF e.head = 0 THEN Head(e.pending) ELSE e.head
           tags1 == IF e.head = 0
                    THEN Append(e.tags, [offset |-> enc_tag_offset(Len(ce_out), e.produced),
                                         value |-> head1])
                    ELSE e.tags
           chunk == Min(Min(e.space, head1), Len(e.outbuf))
           head2 == head1 - chunk
       IN  IF chunk <= 0 THEN [e EXCEPT !.head = head1, !.tags = tags1]
           ELSE Strict([outbuf   |-> Drop(e.outbuf, chunk),
                        pending  |-> IF head2 = 0 /\ e.pending # <<>>
                                     THEN Tail(e.pending) ELSE e.pending,
                        head     |-> head2,
                        out      |-> e.out \o Slice(e.outbuf, 0, chunk),
                        tags     |-> tags1,
                        produced |-> e.produced + chunk,
                        space    |-> e.space - chunk],
                       enc_emit)

\* work(input_items, output_items) after the ingest d of its input window
enc_work(d, n_in, space) ==
  LET e0 == [outbuf |-> d.outbuf, pending |-> d.pending, head |-> ce_head_remaining,
             out |-> <<>>, tags |-> <<>>, produced |-> 0, space |-> space]
  IN  \E e \in {IF d.outbuf = <<>> THEN e0 ELSE Strict(e0, enc_emit)} :
        /\ ce_inbuf' = d.inbuf
        /\ ce_frame_queue' = d.queue
        /\ ce_state' = d.state
        /\ ce_outbuf' = e.outbuf
        /\ ce_pending_out_frames' = e.pending
        /\ ce_head_remaining' = e.head
        /\ ce_out' = ce_out \o e.out
        /\ ce_otags' = ce_otags \o e.tags
        /\ ce_nread' = ce_nread + n_in
        /\ UNCHANGED <<ce_frames, ce_gaps>>

\* input windows offered by the scheduler
EncWindows ==
  LET rem == Len(EncIn) - ce_nread
  IN  {n \in {0, 1, 2, rem} : n <= rem}

EncoderWork ==
  \E n_in \in EncWindows :
    \E d \in {enc_ingest(n_in)} :
      \E space \in 0..MaxEncRoom :
         enc_work(d, n_in, space)

\* the frames sent: one and two bytes long, ending in set and in cleared bits
EncFrames == {<<1>>, <<255>>, <<16, 192>>}

EncoderStart ==
  /\ ce_nread = 0
  /\ ce_inbuf = <<>>
  /\ ce_outbuf = <<>>
  /\ ce_frame_queue = <<>>
  /\ ce_state = 0
  /\ ce_pending_out_frames = <<>>
  /\ ce_head_remaining = 0
  /\ ce_out = <<>>
  /\ ce_otags = <<>>

EncoderInit ==
  /\ ce_frames \in UNION {[1..n -> EncFrames] : n \in 1..MaxEncFrames}
  /\ ce_gaps = Zeros(Len(ce_frames))
  /\ EncoderStart

\* streams with untagged bytes ahead of the first frame and between frames
EncoderGapsInit ==
  /\ ce_frames \in UNION {[1..n -> EncFrames] : n \in 1..MaxEncFrames}
  /\ ce_gaps \in [1..Len(ce_frames) -> 0..MaxEncGap]
  /\ EncoderStart

EncoderIdle == ce_frames = <<>> /\ ce_gaps = <<>> /\ EncoderStart

\* ================================================================ transmit chain
\* sync_coding/sync_coding_v0.py: the five stages connected, every stage run
\* by the scheduler on what the stage ahead of it has written so far

\* tm_framer: no more input than its one packet; room for one or two frames
ChainFramerWork ==
  \E n_out \in {frame_len, 2 * frame_len} :
     /\ Len(fr_frames) + (n_out \div frame_len) <= MaxChainFrames
     /\ fr_general_work(SumSeq(fr_lens) - fr_nread, n_out)

\* tm_rand reads the framer's output: part of a frame or all there is
ChainRandWork ==
  \E n_in \in {n \in {ChainCut, Len(fr_out) - rz1.nread} : n <= Len(fr_out) - rz1.nread},
     n_out \in {ChainCut, 2 * TM_FRAME_LEN} :
     \E st \in {rz_general_work("A", rz1, fr_out, fr_otags, <<>>, n_in, n_out)} :
        /\ st # rz1
        /\ rz1' = st
        /\ UNCHANGED <<rz_cfg, rz2>>

\* rs_I reads the randomizer's output
ChainRsWork ==
  /\ rs_nread < RsInLen
  /\ \E room \in {(RS_N * rs_cfg.I) - 1, RS_N * rs_cfg.I} :
        rs_general_work(RsInLen - rs_nread, room)

\* asm_ins reads the codeblocks
ChainAsmWork ==
  /\ as_nread < AsmInLen
  /\ \E room \in {(RS_N * rs_cfg.I) + asm_len - 1, (RS_N * rs_cfg.I) + asm_len} :
        asm_general_work(AsmInLen - as_nread, room)

\* conv_k7r12 reads the marked codeblocks: part of one or all there is, and
\* writes into less than a coded frame or into a whole one
ChainEncWork ==
  \E n_in \in {n \in {ChainCut, Len(EncIn) - ce_nread} : n <= Len(EncIn) - ce_nread} :
    \E d \in {enc_ingest(n_in)} :
      \E space \in {ChainCut, 2 * ((RS_N * rs_cfg.I) + asm_len)} :
         /\ n_in > 0 \/ ce_outbuf # <<>>
         /\ enc_work(d, n_in, space)

\* the chain as constructed: the framer with its default arguments and one
\* packet of three bytes on its input, seed 0x7FFF, I = I_RS
ChainInit ==
  /\ tx_chain = TRUE
  /\ fr_cfg = [tfdf_len |-> TM_FRAME_LEN - header_len, include_fecf |-> FALSE,
               emit_idle |-> FALSE]
  /\ fr_lens = <<3>>
  /\ FramerStart
  /\ rz_cfg = [seed |-> 32767, restart |-> TRUE, enabled |-> TRUE,
               lens |-> <<>>, kind2 |-> "A", marks |-> <<>>]
  /\ rz1 = RzStart(32767)
  /\ rz2 = RzStart(32767)
  /\ rs_cfg = [I |-> I_RS, lead |-> 0, pats |-> <<>>]
  /\ RsStart
  /\ as_cfg = [lead |-> 0, lens |-> <<>>]
  /\ AsmStart
  /\ ce_frames = <<>>
  /\ ce_gaps = <<>>
  /\ EncoderStart

ChainOff == tx_chain = FALSE

\* ================================================================ short output windows
\* The TM framer, the Reed-Solomon stage and the ASM inserter, one of them at a
\* time, run by a scheduler that records the windows of each invocation.
VARIABLES
  yl_last    \* history: stage = the stage that is run, n_in / room = the
             \* windows of its last invocation, ran = it has been invoked

ylvars == <<yl_last>>

YieldFramerWork ==
  /\ yl_last.stage = "framer"
  /\ \E n_in \in InWindows, n_out \in RoomSizes :
        /\ Len(fr_frames) + (n_out \div frame_len) <= MaxFrames
        /\ fr_general_work(n_in, n_out)
        /\ yl_last' = [stage |-> "framer", n_in |-> n_in, room |-> n_out, ran |-> TRUE]

YieldRsWork ==
  /\ yl_last.stage = "rs"
  /\ \E n_in \in {n \in {0, 1, rs_tm_len - 1, RsInLen - rs_nread} : n <= RsInLen - rs_nread},
        room \in {0, (RS_N * rs_cfg.I) - 1, RS_N * rs_cfg.I} :
        /\ rs_general_work(n_in, room)
        /\ yl_last' = [stage |-> "rs", n_in |-> n_in, room |-> room, ran |-> TRUE]

YieldAsmWork ==
  /\ yl_last.stage = "asm"
  /\ \E n_in \in 0..(AsmInLen - as_nread), room \in 0..(MaxAsmLen + asm_len) :
        /\ asm_general_work(n_in, room)
        /\ yl_last' = [stage |-> "asm", n_in |-> n_in, room |-> room, ran |-> TRUE]

YieldStart(stage) == yl_last = [stage |-> stage, n_in |-> 0, room |-> 0, ran |-> FALSE]

\* one of the three stages has an input stream, the other two have none
YieldInit ==
  \/ /\ YieldStart("framer")
     /\ fr_cfg \in FramerConfigs
     /\ fr_lens \in {l \in Streams : SumSeq(l) <= MaxYieldStream}
     /\ FramerStart /\ RsIdle /\ AsmIdle
  \/ /\ YieldStart("rs")
     /\ rs_cfg \in [I : {1}, lead : {0, 1}, pats : {<<1>>, <<2, 1>>}]
     /\ RsStart /\ FramerIdle /\ AsmIdle
  \/ /\ YieldStart("asm")
     /\ as_cfg \in [lead : {0, 1},
                    lens : UNION {[1..n -> 1..MaxAsmLen] : n \in 1..MaxYieldFrames}]
     /\ AsmStart /\ FramerIdle /\ RsIdle

YieldIdle == YieldStart("none")

\* ================================================================ L7 sender and receiver
\* 1_app_layer_sim/tools/l7_sender.py and l7_receiver.py. A 32-bit word is
\* kept as its four bytes, most significant first, which is also its
\* struct.pack(">I") image; the clock readings are kept as their eight bytes
VARIABLES l7_sel,       \* selected: the profiles of the ProfileStates, in order
          l7_count_per, \* args.count_per
          l7_seq,       \* ps.seq of every ProfileState
          l7_round,     \* round_idx
          l7_pos,       \* place in selected of the next ProfileState
          l7_tx,        \* <<>> or <<the locals of the last build>>
          l7_dgram,     \* the datagram on its way to the receiver
          l7_nsent,     \* calls of sock.sendto made
          l7_err,       \* "" or the exception that ended the sender
          l7_rx         \* <<>> or <<what process_packet made of the datagram>>
l7vars == <<l7_sel, l7_count_per, l7_seq, l7_round, l7_pos, l7_tx, l7_dgram,
            l7_nsent, l7_err, l7_rx>>

\* _CRC32C_POLY = 0x82F63B78
CRC32C_POLY == <<130, 246, 59, 120>>
ONES32 == <<255, 255, 255, 255>>
Xor32(a, b) == <<BitXor(a[1], b[1]), BitXor(a[2], b[2]), BitXor(a[3], b[3]),
                 BitXor(a[4], b[4])>>
Shr1(w) == <<w[1] \div 2, ((w[1] % 2) * 128) + (w[2] \div 2),
             ((w[2] % 2) * 128) + (w[3] \div 2), ((w[3] % 2) * 128) + (w[4] \div 2)>>
Shr8(w) == <<0, w[1], w[2], w[3]>>

\* the table loop: crc = (crc >> 1) ^ POLY if (crc & 1) else (crc >> 1), k times
RECURSIVE crc_table_entry(_, _)
crc_table_entry(crc, k) ==
  IF k = 0 THEN crc
  ELSE crc_table_entry(IF crc[4] % 2 = 1 THEN Xor32(Shr1(crc), CRC32C_POLY)
                       ELSE Shr1(crc), k - 1)
crc32c_table == [i \in 0..255 |-> crc_table_entry(<<0, 0, 0, i>>, 8)]

\* mutant: the top bit of a data byte does not reach the table index
crc_index_low7(crc, b) == BitXor(crc[4], b) % 128
\* (crc ^ b) & 0xFF
crc_index(crc, b) == BitXor(crc[4], b)

\* crc32c, the loop body: crc = table[(crc ^ b) & 0xFF] ^ (crc >> 8)
crc_step(crc, b) ==
  Strict(crc, LAMBDA c : Xor32(crc32c_table[crc_index(c, b)], Shr8(c)))
\* crc32c, the loop over data[lo..hi], taken in halves
RECURSIVE crc_loop(_, _, _, _)
crc_loop(data, lo, hi, crc) ==
  IF lo > hi THEN crc
  ELSE IF lo = hi THEN crc_step(crc, data[lo])
  ELSE Strict(crc_loop(data, lo, (lo + hi) \div 2, crc),
              LAMBDA c : crc_loop(data, ((lo + hi) \div 2) + 1, hi, c))
\* crc32c(data, init = 0)
crc32c(data) ==
  Xor32(crc_loop(data, 1, Len(data), Xor32(<<0, 0, 0, 0>>, ONES32)), ONES32)

\* struct.pack(">H", w)
be_u16(w) == <<w \div 256, w % 256>>

\* pack_primary_header of l7_sender.py: its asserts, then its result. The fields are within
\* their widths behind the asserts, so that | of the shifted fields is their sum
pack_asserts(version, pkt_type, shf, apid, seq_flags, seq_count, length) ==
  /\ version \in 0..7
  /\ pkt_type \in {0, 1}
  /\ shf \in {0, 1}
  /\ apid \in 0..2047
  /\ seq_flags \in 0..3
  /\ seq_count \in 0..16383
  /\ length \in 0..65535
spp_pack_primary_header(version, pkt_type, shf, apid, seq_flags, seq_count, length) ==
  be_u16((version * 8192) + (pkt_type * 4096) + (shf * 2048) + apid)
  \o be_u16((seq_flags * 16384) + seq_count)
  \o be_u16(length)

\* make_sec_hdr(spec); now = the clock reading of this call as bytes
make_sec_hdr(spec, now) ==
  IF spec.mode = "none" THEN <<>>
  ELSE IF spec.mode = "ns8" THEN now
  ELSE IF spec.mode = "sec_us32" THEN SubSeq(now, 1, 4) \o SubSeq(now, 5, 8)
  ELSE spec.hex

\* text.encode("ascii", errors="replace") on the code points of text
encode_ascii(text) == [i \in 1..Len(text) |-> IF text[i] < 128 THEN text[i] ELSE 63]

\* body_from_spec: the ascii and the pattern bodies
body_from_spec(spec) ==
  IF spec.mode = "ascii" THEN encode_ascii(spec.text)
  ELSE (IF spec.pattern16 THEN [i \in 1..16 |-> i - 1] ELSE <<>>)
       \o [i \in 1..spec.extra_bytes |-> (i - 1) % 256]

\* int(pad_hex, 16) on the digits of pad_hex
RECURSIVE int16(_)
int16(digits) ==
  IF digits = <<>> THEN 0
  ELSE (16 * int16(SubSeq(digits, 1, Len(digits) - 1))) + digits[Len(digits)]

\* mutant: the user bytes are never cut to the desired length
pad_only_to_len(user_no_mic, desired, pad_byte) ==
  IF Len(user_no_mic) < desired
  THEN user_no_mic \o Fill(pad_byte, desired - Len(user_no_mic))
  ELSE user_no_mic
\* pad_or_truncate_to_len
pad_or_truncate_to_len(user_no_mic, desired, pad_byte) ==
  IF Len(user_no_mic) = desired THEN user_no_mic
  ELSE IF Len(user_no_mic) < desired
  THEN user_no_mic \o Fill(pad_byte, desired - Len(user_no_mic))
  ELSE SubSeq(user_no_mic, 1, desired)

\* mutant: the MIC is taken over the secondary header and the user bytes
mic_over_data_field(sec_hdr, user_wo_mic_padded) == crc32c(sec_hdr \o user_wo_mic_padded)
\* build_packet_for_profile, line 211: mic_val = crc32c(user_wo_mic_padded)
mic_of(sec_hdr, user_wo_mic_padded) == crc32c(user_wo_mic_padded)

\* mutant: the length field holds the length of the data field
prim_len_full(sec_hdr, user) == Len(sec_hdr) + Len(user)
\* build_packet_for_profile, line 224: prim_len
prim_len_of(sec_hdr, user) == (Len(sec_hdr) + Len(user)) - 1

\* build_packet_for_profile(pstate, counter): prof and seq of pstate, now = the
\* clock; err names the exception raised, and is "" when pkt is returned
build_packet_for_profile(prof, seq, now) ==
  LET pkt_type_bit == IF prof.type = "TC" THEN 1 ELSE 0
      sec_hdr      == make_sec_hdr(prof.sec_hdr, now)
      user_no_mic  == body_from_spec(prof.body)
      pad_byte     == IF prof.body.mode = "ascii" THEN int16(prof.body.pad_byte) ELSE 0
      mic_len      == IF prof.use_mic THEN 4 ELSE 0
      data_field_len == IF prof.has_len THEN prof.data_field_len
                        ELSE Len(sec_hdr) + Len(user_no_mic) + mic_len
      desired      == data_field_len - Len(sec_hdr) - mic_len
      padded       == pad_or_truncate_to_len(user_no_mic, desired, pad_byte)
      mic          == IF prof.use_mic THEN mic_of(sec_hdr, padded) ELSE <<>>
      user         == padded \o mic
      shf          == IF Len(sec_hdr) > 0 THEN 1 ELSE 0
      seq_count    == seq % 16384
      prim_len     == prim_len_of(sec_hdr, user)
      none         == [err |-> "", pkt |-> <<>>, sec_hdr |-> <<>>, user |-> <<>>, mic |-> <<>>,
                       seq_count |-> seq_count]
  IN  IF desired < 0 THEN [none EXCEPT !.err = "ValueError"]
      ELSE IF ~pack_asserts(0, pkt_type_bit, shf, prof.apid, 3, seq_count, prim_len)
      THEN [none EXCEPT !.err = "AssertionError"]
      ELSE [err |-> "", sec_hdr |-> sec_hdr, user |-> padded, mic |-> mic,
            seq_count |-> seq_count,
            pkt |-> spp_pack_primary_header(0, pkt_type_bit, shf, prof.apid, 3,
                                        seq_count, prim_len) \o sec_hdr \o user]

\* mutant: the counter wraps one bit early
next_seq_13(seq) == (seq + 1) % 8192
\* main, line 301: ps.seq = (ps.seq + 1) & 0x3FFF
next_seq(seq) == (seq + 1) % 16384

\* the clock readings taken by make_sec_hdr
Clock == {<<23, 112, 5, 0, 1, 2, 3, 4>>, <<23, 112, 5, 0, 1, 2, 3, 5>>}

NoTx == <<>>
NoRx == [got |-> FALSE, cfg |-> <<>>, out |-> <<>>]

\* main, lines 276-305: one pass of the inner loop body, or the exception
\* that leaves it
L7Send ==
  /\ l7_err = ""
  /\ l7_round < l7_count_per
  /\ \E now \in Clock :
       \E b \in {build_packet_for_profile(l7_sel[l7_pos], l7_seq[l7_pos], now)} :
          IF b.err # ""
          THEN /\ l7_err' = b.err
               /\ UNCHANGED <<l7_sel, l7_count_per, l7_seq, l7_round, l7_pos, l7_tx,
                              l7_dgram, l7_nsent, l7_rx>>
          ELSE /\ l7_dgram' = b.pkt
               /\ l7_nsent' = l7_nsent + 1
               /\ l7_tx' = <<[idx |-> l7_pos, round |-> l7_round, sec_hdr |-> b.sec_hdr,
                              user |-> b.user, mic |-> b.mic,
                              seq_count |-> b.seq_count, flip |-> 0]>>
               /\ l7_seq' = [l7_seq EXCEPT ![l7_pos] = next_seq(l7_seq[l7_pos])]
               /\ l7_pos' = IF l7_pos = Len(l7_sel) THEN 1 ELSE l7_pos + 1
               /\ l7_round' = IF l7_pos = Len(l7_sel) THEN l7_round + 1 ELSE l7_round
               /\ l7_rx' = NoRx
               /\ UNCHANGED <<l7_sel, l7_count_per, l7_err>>

\* the bytes u with bit number n (1 = first bit of the first byte) inverted
FlipAt(u, n) == [i \in 1..Len(u) |->
                   IF i = ((n - 1) \div 8) + 1 THEN FlipBit(u[i], 7 - ((n - 1) % 8))
                   ELSE u[i]]

\* the link inverts one bit of the user bytes of the datagram
L7Flip ==
  /\ l7_dgram # <<>>
  /\ ~l7_rx.got
  /\ l7_tx[1].flip = 0
  /\ Len(l7_tx[1].user) <= MaxFlipUser
  /\ \E n \in 1..(8 * Len(l7_tx[1].user)) :
        /\ l7_dgram' = [i \in 1..Len(l7_dgram) |->
                          LET j == i - 6 - Len(l7_tx[1].sec_hdr)
                          IN  IF j >= 1 /\ j <= Len(l7_tx[1].user)
                              THEN FlipAt(l7_tx[1].user, n)[j] ELSE l7_dgram[i]]
        /\ l7_tx' = <<[l7_tx[1] EXCEPT !.flip = n]>>
  /\ UNCHANGED <<l7_sel, l7_count_per, l7_seq, l7_round, l7_pos, l7_nsent, l7_err, l7_rx>>

\* ---------------------------------------------------------------- l7_receiver.py
\* parse_primary_header on at least six bytes
parse_primary_header(hdr) ==
  LET w1 == (hdr[1] * 256) + hdr[2]
      w2 == (hdr[3] * 256) + hdr[4]
      w3 == (hdr[5] * 256) + hdr[6]
  IN  [version |-> (w1 \div 8192) % 8, type |-> (w1 \div 4096) % 2,
       shf |-> (w1 \div 2048) % 2, apid |-> w1 % 2048,
       seq_flags |-> (w2 \div 16384) % 4, seq_count |-> w2 % 16384,
       data_field_len |-> w3, total_len |-> 6 + (w3 + 1)]

\* a receiver sec-mode: "none", "auto", "ns8", "sec_us32" with n = 0, or
\* "fixed" with the N of fixed:N
SecMode(m, n) == [mode |-> m, n |-> n]
\* sec_len_from_mode
sec_len_from_mode(mode) ==
  IF mode.mode \in {"none", "auto"} THEN 0
  ELSE IF mode.mode \in {"ns8", "sec_us32"} THEN 8
  ELSE mode.n

\* load_profiles and apid_map.get(apid): the last profile of the array with
\* this APID, as <<prof>>, or <<>>
apid_map_get(arr, apid) ==
  LET hits == {i \in 1..Len(arr) : arr[i].apid = apid}
  IN  IF hits = {} THEN <<>>
      ELSE <<arr[CHOOSE i \in hits : \A j \in hits : j <= i]>>

\* expected_sec_mode_and_mic_for_apid; mic is "None", "True" or "False"
expected_sec_mode_and_mic_for_apid(apid, arr) ==
  LET got == apid_map_get(arr, apid)
  IN  IF got = <<>> THEN [sec_mode |-> SecMode("auto", 0), mic |-> "None"]
      ELSE LET prof == got[1]
               mic  == IF prof.use_mic THEN "True" ELSE "False"
           IN  IF prof.sec_hdr.mode = "fixed"
               THEN [sec_mode |-> SecMode("fixed", Len(prof.sec_hdr.hex)), mic |-> mic]
               ELSE [sec_mode |-> SecMode(prof.sec_hdr.mode, 0), mic |-> mic]

\* iter_packets(blob), from byte i (0-based) on
RECURSIVE iter_packets(_, _)
iter_packets(blob, i) ==
  IF i + 6 > Len(blob) THEN <<>>
  ELSE LET ph  == parse_primary_header(SubSeq(blob, i + 1, i + 6))
           end == i + ph.total_len
       IN  IF end > Len(blob) THEN <<>>
           ELSE <<[pkt |-> SubSeq(blob, i + 1, end), ph |-> ph]>> \o iter_packets(blob, end)

\* mutant: only the on mode makes a mismatch BAD
mic_wanted_on_only(mic_mode, mic_expect) == mic_mode = "on"
\* process_packet, lines 243 and 249: mic_mode == "on" or mic_expect is True
mic_wanted(mic_mode, mic_expect) == mic_mode = "on" \/ mic_expect = "True"

\* process_packet: what it logs of one packet
process_packet(pkt, ph, sec_mode_cli, mic_mode, arr) ==
  LET exp        == IF sec_mode_cli.mode = "auto"
                    THEN expected_sec_mode_and_mic_for_apid(ph.apid, arr)
                    ELSE [sec_mode |-> sec_mode_cli, mic |-> "None"]
      data_field == SubSeq(pkt, 7, Len(pkt))
      want_len   == IF ph.shf = 1 THEN sec_len_from_mode(exp.sec_mode) ELSE 0
      sec_len    == IF want_len > Len(data_field) THEN 0 ELSE want_len
      rest       == SubSeq(data_field, sec_len + 1, Len(data_field))
      cand_user  == SubSeq(rest, 1, Len(rest) - 4)
      cand_mic   == SubSeq(rest, Len(rest) - 3, Len(rest))
      inspect    == mic_mode # "off" /\ Len(rest) >= 4
      match      == inspect /\ cand_mic = crc32c(cand_user)
      mic_state  == IF mic_mode = "off" THEN "OFF"
                    ELSE IF Len(rest) >= 4
                    THEN IF match THEN "OK"
                         ELSE IF mic_wanted(mic_mode, exp.mic) THEN "BAD" ELSE "none"
                    ELSE IF mic_wanted(mic_mode, exp.mic) THEN "SHORT" ELSE "none"
  IN  [apid |-> ph.apid, type |-> IF ph.type = 1 THEN "TC" ELSE "TM", shf |-> ph.shf,
       seq_count |-> ph.seq_count, seq_flags |-> ph.seq_flags, total |-> Len(pkt),
       sec_mode |-> exp.sec_mode, mic_expect |-> exp.mic,
       sec_len |-> sec_len, sec_hdr |-> SubSeq(data_field, 1, sec_len),
       rest |-> rest, inspected |-> inspect,
       mic_state |-> mic_state, mic |-> IF mic_state \in {"OK", "BAD"} THEN cand_mic ELSE <<>>,
       user |-> IF match THEN cand_user ELSE rest]

\* the command lines of the receiver: --sec-mode, --mic, and --config given
\* (the sender's array) or not
RxConfigs ==
  [sec_mode_cli : {SecMode("auto", 0), SecMode("none", 0), SecMode("ns8", 0),
                   SecMode("fixed", 4)},
   mic_mode : {"auto", "on", "off"},
   has_config : BOOLEAN]

\* main of the receiver: one datagram, every packet in it processed
L7Receive ==
  /\ l7_dgram # <<>>
  /\ ~l7_rx.got
  /\ \E cfg \in RxConfigs :
       LET arr  == IF cfg.has_config THEN l7_sel ELSE <<>>
           pkts == iter_packets(l7_dgram, 0)
       IN  l7_rx' = [got |-> TRUE, cfg |-> cfg,
                     out |-> [k \in 1..Len(pkts) |->
                                process_packet(pkts[k].pkt, pkts[k].ph, cfg.sec_mode_cli,
                                               cfg.mic_mode, arr)]]
  /\ UNCHANGED <<l7_sel, l7_count_per, l7_seq, l7_round, l7_pos, l7_tx, l7_dgram,
                 l7_nsent, l7_err>>

\* ---------------------------------------------------------------- profiles
SecHdr(mode, hex) == [mode |-> mode, hex |-> hex]
AsciiBody(text, pad_byte) ==
  [mode |-> "ascii", text |-> text, pad_byte |-> pad_byte, pattern16 |-> FALSE,
   extra_bytes |-> 0]
PatternBody(pattern16, extra_bytes) ==
  [mode |-> "pattern", text |-> <<>>, pad_byte |-> <<0, 0>>, pattern16 |-> pattern16,
   extra_bytes |-> extra_bytes]
\* a profile of apps.json; has_len tells whether it gives data_field_len
Profile(apid, type, sec_hdr, body, use_mic, has_len, data_field_len) ==
  [apid |-> apid, type |-> type, sec_hdr |-> sec_hdr, body |-> body, use_mic |-> use_mic,
   has_len |-> has_len, data_field_len |-> data_field_len]

DEADBEEF == <<222, 173, 190, 239>>
\* "0.21/data/"
CfdpText == <<48, 46, 50, 49, 47, 100, 97, 116, 97, 47>>
\* the CFDP_META profile of the sender's documentation
CfdpMeta ==
  Profile(179, "TC", SecHdr("ns8", <<>>), AsciiBody(CfdpText, <<0, 0>>), TRUE, TRUE, 138)
\* a fixed secondary header DEADBEEF ahead of 24 user bytes and the MIC
FixedMic32 ==
  Profile(5, "TM", SecHdr("fixed", DEADBEEF), PatternBody(TRUE, 8), TRUE, TRUE, 32)

L7Secs   == {SecHdr("none", <<>>), SecHdr("ns8", <<>>), SecHdr("fixed", DEADBEEF)}
L7Bodies == {AsciiBody(<<>>, <<0, 0>>), AsciiBody(<<65, 233>>, <<15, 15>>),
             PatternBody(TRUE, 0)}
L7Lens   == {<<FALSE, 0>>, <<TRUE, 0>>, <<TRUE, 3>>, <<TRUE, 4>>, <<TRUE, 6>>,
             <<TRUE, 12>>}
L7Profiles ==
  {Profile(179, "TC", s, b, m, l[1], l[2]) :
     s \in L7Secs, b \in L7Bodies, m \in BOOLEAN, l \in L7Lens}
  \cup {CfdpMeta, FixedMic32,
        Profile(2047, "TM", SecHdr("sec_us32", <<>>), PatternBody(FALSE, 3), TRUE, FALSE, 0),
        Profile(2048, "TC", SecHdr("none", <<>>), AsciiBody(<<65>>, <<0, 0>>), FALSE, FALSE, 0)}

\* profiles of the long run: two that build, one whose data field cannot hold
\* its secondary header and MIC
LoopA   == Profile(1, "TC", SecHdr("none", <<>>), AsciiBody(<<65>>, <<0, 0>>), FALSE, FALSE, 0)
LoopB   == Profile(2, "TM", SecHdr("fixed", DEADBEEF), AsciiBody(<<66>>, <<0, 0>>), TRUE, TRUE, 9)
LoopBad == Profile(3, "TC", SecHdr("fixed", DEADBEEF), AsciiBody(<<67>>, <<0, 0>>), TRUE, TRUE, 7)
LoopLists == {<<LoopA>>, <<LoopA, LoopB>>, <<LoopA, LoopBad>>, <<LoopBad, LoopA>>}

\* main up to the send loop: the ProfileStates and the counters
L7Start ==
  /\ l7_seq = Zeros(Len(l7_sel))
  /\ l7_round = 0
  /\ l7_pos = 1
  /\ l7_tx = NoTx
  /\ l7_dgram = <<>>
  /\ l7_nsent = 0
  /\ l7_err = ""
  /\ l7_rx = NoRx

\* one profile selected, one packet per profile
L7Init ==
  /\ l7_sel \in {<<p>> : p \in L7Profiles}
  /\ l7_count_per = 1
  /\ L7Start

\* a long run of one or two profiles
L7LoopInit ==
  /\ l7_sel \in LoopLists
  /\ l7_count_per = MaxRounds
  /\ L7Start

L7Idle == l7_sel = <<>> /\ l7_count_per = 0 /\ L7Start

\* ================================================================ TM body packer
\* sync_coding/default_epy_block_7.py
VARIABLES
  bp_cfg,            \* constructor arguments: body_len, pad_byte
  bp_len,            \* the input stream: its number of bytes
  bp_nread,          \* input items consumed so far
  bp_buf,            \* self._buf
  bp_pending_flush,  \* self._pending_flush
  bp_out,            \* every byte written to output port 0
  bp_otags,          \* every tag added on output port 0, in order
  bp_nflush,         \* history: flush messages handled so far
  bp_flush_empty,    \* history: the last flush message found the buffer empty
  bp_pads,           \* history: for each padded body, bp_flush_empty when it was emitted
  bp_last            \* history: the last invocation of general_work

bpvars == <<bp_cfg, bp_len, bp_nread, bp_buf, bp_pending_flush, bp_out, bp_otags,
            bp_nflush, bp_flush_empty, bp_pads, bp_last>>

body_len == bp_cfg.body_len
\* the packer copies bytes without reading them: byte i of the stream carries
\* the label LabelBase + i, which no pad byte equals
BpIn == [i \in 1..bp_len |-> LabelBase + i]

\* ---- _on_flush: any message requests a flush
on_flush ==
  /\ bp_pending_flush' = TRUE
  /\ bp_nflush' = bp_nflush + 1
  /\ bp_flush_empty' = (bp_buf = <<>>)
  /\ UNCHANGED <<bp_cfg, bp_len, bp_nread, bp_buf, bp_out, bp_otags, bp_pads, bp_last>>

\* ---- general_work, lines 65-80: emit as many full bodies as will fit
\* s = [buf, out, tags, produced, out_room]; nitems_written(0) = Len(bp_out)
RECURSIVE bp_emit_full(_)
bp_emit_full(s) ==
  IF ~(s.out_room >= body_len /\ Len(s.buf) >= body_len) THEN s
  ELSE bp_emit_full([buf |-> Drop(s.buf, body_len),
                     out |-> s.out \o Slice(s.buf, 0, body_len),
                     tags |-> Append(s.tags, [offset |-> Len(bp_out) + s.produced,
                                              value |-> body_len]),
                     produced |-> s.produced + body_len,
                     out_room |-> s.out_room - body_len])

\* mutant: the partial body is padded with zero bytes whatever pad_byte is
bp_pad_zero(buf) == buf \o Zeros(body_len - Len(buf))
\* lines 84-85: need = body_len - len(_buf); _buf.extend(pad_byte * need)
bp_pad(buf) == buf \o Fill(bp_cfg.pad_byte, body_len - Len(buf))

\* ---- general_work, lines 82-99: pad and emit the partial leftover on a flush
bp_flush_due(s) ==
  bp_pending_flush /\ s.out_room >= body_len /\ 0 < Len(s.buf) /\ Len(s.buf) < body_len
bp_emit_padded(s) ==
  [buf |-> Drop(bp_pad(s.buf), body_len),
   out |-> s.out \o Slice(bp_pad(s.buf), 0, body_len),
   tags |-> Append(s.tags, [offset |-> Len(bp_out) + s.produced, value |-> body_len]),
   produced |-> s.produced + body_len,
   out_room |-> s.out_room - body_len]

\* ---- general_work(input_items, output_items)
bp_general_work(n_in, n_out) ==
  IF n_in = 0 /\ n_out = 0
  THEN /\ bp_last' = [n_in |-> 0, n_out |-> 0, produced |-> 0, padded |-> FALSE,
                      call |-> bp_last.call + 1]
       /\ UNCHANGED <<bp_cfg, bp_len, bp_nread, bp_buf, bp_pending_flush, bp_out,
                      bp_otags, bp_nflush, bp_flush_empty, bp_pads>>
  ELSE \E s \in {bp_emit_full([buf |-> bp_buf \o Slice(BpIn, bp_nread, bp_nread + n_in),
                               out |-> <<>>, tags |-> <<>>, produced |-> 0,
                               out_room |-> n_out])} :
       \E due \in {bp_flush_due(s)} :
       \E e \in {IF due THEN bp_emit_padded(s) ELSE s} :
          /\ bp_nread' = bp_nread + n_in
          /\ bp_buf' = e.buf
          /\ bp_out' = bp_out \o e.out
          /\ bp_otags' = bp_otags \o e.tags
          /\ bp_pending_flush' = (IF due THEN FALSE ELSE bp_pending_flush)
          /\ bp_pads' = (IF due THEN Append(bp_pads, bp_flush_empty) ELSE bp_pads)
          /\ bp_last' = [n_in |-> n_in, n_out |-> n_out, produced |-> e.produced,
                         padded |-> due, call |-> bp_last.call + 1]
          /\ UNCHANGED <<bp_cfg, bp_len, bp_nflush, bp_flush_empty>>

\* ---- the host scheduler: any input window; output windows of no room, one
\* byte short of a body, and whole numbers of bodies
BpRooms == {0, body_len - 1, body_len, MaxBpBodies * body_len}
PackerWork ==
  \E n_in \in 0..(bp_len - bp_nread), n_out \in BpRooms :
     /\ bp_last.call < MaxBpCalls
     /\ bp_general_work(n_in, n_out)

\* a message on the flush port, handled between two invocations of general_work
PackerFlush ==
  /\ bp_nflush < MaxFlushes
  /\ on_flush

BodyLens == {2, 3}
PadBytes == {0, 7}

\* state after __init__
PackerStart ==
  /\ bp_nread = 0
  /\ bp_buf = <<>>
  /\ bp_pending_flush = FALSE
  /\ bp_out = <<>>
  /\ bp_otags = <<>>
  /\ bp_nflush = 0
  /\ bp_flush_empty = FALSE
  /\ bp_pads = <<>>
  /\ bp_last = [n_in |-> 0, n_out |-> 0, produced |-> 0, padded |-> FALSE, call |-> 0]

PackerInit ==
  /\ bp_cfg \in [body_len : BodyLens, pad_byte : PadBytes]
  /\ bp_len \in 0..MaxBpStream
  /\ PackerStart

\* the packer when another stage is examined: constructed, no input
PackerIdle ==
  /\ bp_cfg = [body_len |-> 2, pad_byte |-> 0]
  /\ bp_len = 0
  /\ PackerStart

\* ================================================================ specifications
vars == <<frvars, tgvars, vtvars, tbvars, rzvars, rsvars, asvars, cevars, chvars, l7vars, bpvars, ylvars, ilvars>>

\* the TM framer runs, the other stages stay as constructed
InitFramer ==
  FramerInit /\ TaggerIdle /\ ViterbiIdle /\ TrellisBuilt /\ RandomizerIdle /\ RsIdle /\ AsmIdle /\ EncoderIdle /\ ChainOff /\ L7Idle /\ PackerIdle /\ YieldIdle /\ InterleaveIdle
FramerNext == FramerWork /\ UNCHANGED <<tgvars, vtvars, tbvars, rzvars, rsvars, asvars, cevars, chvars, l7vars, bpvars, ylvars, ilvars>>
SpecFramer == InitFramer /\ [][FramerNext]_vars

\* the TM framer constructed with a data field longer than 2046 bytes
InitFramerLong ==
  FramerLongInit /\ TaggerIdle /\ ViterbiIdle /\ TrellisBuilt /\ RandomizerIdle /\ RsIdle /\ AsmIdle /\ EncoderIdle /\ ChainOff /\ L7Idle /\ PackerIdle /\ YieldIdle /\ InterleaveIdle
SpecFramerLong == InitFramerLong /\ [][FramerNext]_vars

\* the SPP tagger runs
InitTagger ==
  TaggerInit /\ FramerIdle /\ ViterbiIdle /\ TrellisBuilt /\ RandomizerIdle /\ RsIdle /\ AsmIdle /\ EncoderIdle /\ ChainOff /\ L7Idle /\ PackerIdle /\ YieldIdle /\ InterleaveIdle
TaggerNext == TaggerWork /\ UNCHANGED <<frvars, vtvars, tbvars, rzvars, rsvars, asvars, cevars, chvars, l7vars, bpvars, ylvars, ilvars>>
SpecTagger == InitTagger /\ [][TaggerNext]_vars

\* the Viterbi decoder runs on whole encoded frames
InitViterbi ==
  ViterbiInit /\ FramerIdle /\ TaggerIdle /\ TrellisBuilt /\ RandomizerIdle /\ RsIdle /\ AsmIdle /\ EncoderIdle /\ ChainOff /\ L7Idle /\ PackerIdle /\ YieldIdle /\ InterleaveIdle
ViterbiNext == ViterbiWork /\ UNCHANGED <<frvars, tgvars, tbvars, rzvars, rsvars, asvars, cevars, chvars, l7vars, bpvars, ylvars, ilvars>>
SpecViterbi == InitViterbi /\ [][ViterbiNext]_vars

\* the decoder fed frames of any declared number of coded bits
InitViterbiBits ==
  ViterbiBitsInit /\ FramerIdle /\ TaggerIdle /\ TrellisBuilt /\ RandomizerIdle /\ RsIdle /\ AsmIdle /\ EncoderIdle /\ ChainOff /\ L7Idle /\ PackerIdle /\ YieldIdle /\ InterleaveIdle
SpecViterbiBits == InitViterbiBits /\ [][ViterbiNext]_vars

\* the construction of the decoder's trellis, before any work call
InitTrellis ==
  TrellisInit /\ FramerIdle /\ TaggerIdle /\ ViterbiIdle /\ RandomizerIdle /\ RsIdle /\ AsmIdle /\ EncoderIdle /\ ChainOff /\ L7Idle /\ PackerIdle /\ YieldIdle /\ InterleaveIdle
TrellisNext == BuildTrellisStep /\ UNCHANGED <<frvars, tgvars, vtvars, rzvars, rsvars, asvars, cevars, chvars, l7vars, bpvars, ylvars, ilvars>>
SpecTrellis == InitTrellis /\ [][TrellisNext]_vars

\* two randomizer instances in a row
InitRandomizer ==
  RandomizerInit /\ FramerIdle /\ TaggerIdle /\ ViterbiIdle /\ TrellisBuilt /\ RsIdle /\ AsmIdle /\ EncoderIdle /\ ChainOff /\ L7Idle /\ PackerIdle /\ YieldIdle /\ InterleaveIdle
RandomizerNext ==
  \/ Rand1Work /\ UNCHANGED <<frvars, tgvars, vtvars, tbvars, rsvars, asvars, cevars, chvars, l7vars, bpvars, ylvars, ilvars>>
  \/ Rand2Work /\ UNCHANGED <<frvars, tgvars, vtvars, tbvars, rsvars, asvars, cevars, chvars, l7vars, bpvars, ylvars, ilvars>>
SpecRandomizer == InitRandomizer /\ [][RandomizerNext]_vars

\* the randomizers fed a stream that also carries tags of another key
InitRandomizerTags ==
  RandomizerTagsInit /\ FramerIdle /\ TaggerIdle /\ ViterbiIdle /\ TrellisBuilt /\ RsIdle /\ AsmIdle /\ EncoderIdle /\ ChainOff /\ L7Idle /\ PackerIdle /\ YieldIdle /\ InterleaveIdle
SpecRandomizerTags == InitRandomizerTags /\ [][RandomizerNext]_vars

\* the Reed-Solomon stage runs
InitRs ==
  RsInit /\ FramerIdle /\ TaggerIdle /\ ViterbiIdle /\ TrellisBuilt /\ RandomizerIdle /\ AsmIdle /\ EncoderIdle /\ ChainOff /\ L7Idle /\ PackerIdle /\ YieldIdle /\ InterleaveIdle
RsNext == RsWork /\ UNCHANGED <<frvars, tgvars, vtvars, tbvars, rzvars, asvars, cevars, chvars, l7vars, bpvars, ylvars, ilvars>>
SpecRs == InitRs /\ [][RsNext]_vars

\* the Reed-Solomon stage fed frames whose length tag is not tm_len
InitRsTags ==
  RsTagsInit /\ FramerIdle /\ TaggerIdle /\ ViterbiIdle /\ TrellisBuilt /\ RandomizerIdle /\ AsmIdle /\ EncoderIdle /\ ChainOff /\ L7Idle /\ PackerIdle /\ YieldIdle /\ InterleaveIdle
SpecRsTags == InitRsTags /\ [][RsNext]_vars

\* the ASM inserter runs
InitAsm ==
  AsmInit /\ FramerIdle /\ TaggerIdle /\ ViterbiIdle /\ TrellisBuilt /\ RandomizerIdle /\ RsIdle /\ EncoderIdle /\ ChainOff /\ L7Idle /\ PackerIdle /\ YieldIdle /\ InterleaveIdle
AsmNext == AsmWork /\ UNCHANGED <<frvars, tgvars, vtvars, tbvars, rzvars, rsvars, cevars, chvars, l7vars, bpvars, ylvars, ilvars>>
SpecAsm == InitAsm /\ [][AsmNext]_vars

\* the convolutional encoder runs
InitEncoder ==
  EncoderInit /\ FramerIdle /\ TaggerIdle /\ ViterbiIdle /\ TrellisBuilt /\ RandomizerIdle /\ RsIdle /\ AsmIdle /\ ChainOff /\ L7Idle /\ PackerIdle /\ YieldIdle /\ InterleaveIdle
EncoderNext == EncoderWork /\ UNCHANGED <<frvars, tgvars, vtvars, tbvars, rzvars, rsvars, asvars, chvars, l7vars, bpvars, ylvars, ilvars>>
SpecEncoder == InitEncoder /\ [][EncoderNext]_vars

\* the encoder fed a stream with untagged bytes
InitEncoderGaps ==
  EncoderGapsInit /\ FramerIdle /\ TaggerIdle /\ ViterbiIdle /\ TrellisBuilt /\ RandomizerIdle /\ RsIdle /\ AsmIdle /\ ChainOff /\ L7Idle /\ PackerIdle /\ YieldIdle /\ InterleaveIdle
SpecEncoderGaps == InitEncoderGaps /\ [][EncoderNext]_vars

\* the L7 sender builds a packet of one profile, the link may invert a bit, the receiver processes it
InitL7 ==
  L7Init /\ FramerIdle /\ TaggerIdle /\ ViterbiIdle /\ TrellisBuilt /\ RandomizerIdle /\ RsIdle /\ AsmIdle /\ EncoderIdle /\ ChainOff /\ PackerIdle /\ YieldIdle /\ InterleaveIdle
L7Next ==
  \/ L7Send /\ UNCHANGED <<frvars, tgvars, vtvars, tbvars, rzvars, rsvars, asvars, cevars, chvars, bpvars, ylvars, ilvars>>
  \/ L7Flip /\ UNCHANGED <<frvars, tgvars, vtvars, tbvars, rzvars, rsvars, asvars, cevars, chvars, bpvars, ylvars, ilvars>>
  \/ L7Receive /\ UNCHANGED <<frvars, tgvars, vtvars, tbvars, rzvars, rsvars, asvars, cevars, chvars, bpvars, ylvars, ilvars>>
SpecL7 == InitL7 /\ [][L7Next]_vars

\* the send loop of the L7 sender over many rounds
InitL7Loop ==
  L7LoopInit /\ FramerIdle /\ TaggerIdle /\ ViterbiIdle /\ TrellisBuilt /\ RandomizerIdle /\ RsIdle /\ AsmIdle /\ EncoderIdle /\ ChainOff /\ PackerIdle /\ YieldIdle /\ InterleaveIdle
L7LoopNext == L7Send /\ UNCHANGED <<frvars, tgvars, vtvars, tbvars, rzvars, rsvars, asvars, cevars, chvars, bpvars, ylvars, ilvars>>
SpecL7Loop == InitL7Loop /\ [][L7LoopNext]_vars

\* the TM body packer runs and flush messages arrive between its invocations
InitPacker ==
  PackerInit /\ FramerIdle /\ TaggerIdle /\ ViterbiIdle /\ TrellisBuilt /\ RandomizerIdle /\ RsIdle /\ AsmIdle /\ EncoderIdle /\ ChainOff /\ L7Idle /\ YieldIdle /\ InterleaveIdle
PackerNext ==
  \/ PackerWork /\ UNCHANGED <<frvars, tgvars, vtvars, tbvars, rzvars, rsvars, asvars, cevars, chvars, l7vars, ylvars, ilvars>>
  \/ PackerFlush /\ UNCHANGED <<frvars, tgvars, vtvars, tbvars, rzvars, rsvars, asvars, cevars, chvars, l7vars, ylvars, ilvars>>
SpecPacker == InitPacker /\ [][PackerNext]_vars

\* the connected transmit chain: any stage may run next
InitChain == ChainInit /\ TaggerIdle /\ ViterbiIdle /\ TrellisBuilt /\ L7Idle /\ PackerIdle /\ YieldIdle /\ InterleaveIdle
ChainNext ==
  \/ ChainFramerWork /\ UNCHANGED <<tgvars, vtvars, tbvars, rzvars, rsvars, asvars, cevars, chvars, l7vars, bpvars, ylvars, ilvars>>
  \/ ChainRandWork /\ UNCHANGED <<frvars, tgvars, vtvars, tbvars, rsvars, asvars, cevars, chvars, l7vars, bpvars, ylvars, ilvars>>
  \/ ChainRsWork /\ UNCHANGED <<frvars, tgvars, vtvars, tbvars, rzvars, asvars, cevars, chvars, l7vars, bpvars, ylvars, ilvars>>
  \/ ChainAsmWork /\ UNCHANGED <<frvars, tgvars, vtvars, tbvars, rzvars, rsvars, cevars, chvars, l7vars, bpvars, ylvars, ilvars>>
  \/ ChainEncWork /\ UNCHANGED <<frvars, tgvars, vtvars, tbvars, rzvars, rsvars, asvars, chvars, l7vars, bpvars, ylvars, ilvars>>
\* the scheduler keeps running a stage behind the framer that has input and room
ChainFair ==
  /\ WF_vars(ChainRandWork /\ UNCHANGED <<frvars, tgvars, vtvars, tbvars, rsvars, asvars, cevars, chvars, l7vars, bpvars, ylvars, ilvars>>)
  /\ WF_vars(ChainRsWork /\ UNCHANGED <<frvars, tgvars, vtvars, tbvars, rzvars, asvars, cevars, chvars, l7vars, bpvars, ylvars, ilvars>>)
  /\ WF_vars(ChainAsmWork /\ UNCHANGED <<frvars, tgvars, vtvars, tbvars, rzvars, rsvars, cevars, chvars, l7vars, bpvars, ylvars, ilvars>>)
  /\ WF_vars(ChainEncWork /\ UNCHANGED <<frvars, tgvars, vtvars, tbvars, rzvars, rsvars, asvars, chvars, l7vars, bpvars, ylvars, ilvars>>)
SpecChain == InitChain /\ [][ChainNext]_vars /\ ChainFair

\* the interleaver applied to labelled codewords of every depth
InitInterleave ==
  InterleaveInit /\ FramerIdle /\ TaggerIdle /\ ViterbiIdle /\ TrellisBuilt /\ RandomizerIdle /\ AsmIdle /\ EncoderIdle /\ ChainOff /\ L7Idle /\ PackerIdle /\ YieldIdle
InterleaveNext ==
  \/ IlMultiplex /\ UNCHANGED <<frvars, tgvars, vtvars, tbvars, rzvars, rsvars, asvars, cevars, chvars, l7vars, bpvars, ylvars>>
  \/ IlRead /\ UNCHANGED <<frvars, tgvars, vtvars, tbvars, rzvars, rsvars, asvars, cevars, chvars, l7vars, bpvars, ylvars>>
SpecInterleave == InitInterleave /\ [][InterleaveNext]_vars

\* the framer, the Reed-Solomon stage or the ASM inserter offered windows of every size
InitYield ==
  YieldInit /\ TaggerIdle /\ ViterbiIdle /\ TrellisBuilt /\ RandomizerIdle /\ EncoderIdle /\ ChainOff /\ L7Idle /\ PackerIdle /\ InterleaveIdle
YieldNext ==
  \/ YieldFramerWork /\ UNCHANGED <<tgvars, vtvars, tbvars, rzvars, rsvars, asvars, cevars, chvars, l7vars, bpvars, ilvars>>
  \/ YieldRsWork /\ UNCHANGED <<frvars, tgvars, vtvars, tbvars, rzvars, asvars, cevars, chvars, l7vars, bpvars, ilvars>>
  \/ YieldAsmWork /\ UNCHANGED <<frvars, tgvars, vtvars, tbvars, rzvars, rsvars, cevars, chvars, l7vars, bpvars, ilvars>>
SpecYield == InitYield /\ [][YieldNext]_vars

\* ================================================================ properties
\* ---- reading the framer's output stream
NumFrames     == Len(fr_frames)
\* byte i (from 1) of frame k, and byte j (from 1) of its data field
FrameByte(k, i) == fr_out[fr_frames[k].off + i]
TfdfByte(k, j)  == fr_out[fr_frames[k].off + header_len + j]
TfdfOf(k)     == SubSeq(fr_out, fr_frames[k].off + header_len + 1,
                                fr_frames[k].off + header_len + tfdf_len)
\* 11-bit First Header Pointer: low 3 bits of header byte 4, then byte 5
FhpOf(k)      == (fr_out[fr_frames[k].off + 5] % 8) * 256 + fr_out[fr_frames[k].off + 6]
IsLabel(b)    == b > LabelBase
\* labels of the first bytes of the stream's packets
HeaderLabels  == {LabelBase + PktOff(k) + 1 : k \in 1..Len(fr_lens)}
\* TFDF offsets (0-based) of frame k at which a packet header begins
HeaderOffsets(k) == {j \in 0..(tfdf_len - 1) : TfdfByte(k, j + 1) \in HeaderLabels}
SetMin(S)     == CHOOSE x \in S : \A y \in S : x <= y
\* packet bytes carried by the TFDFs of all frames, in output order
AllTfdfBytes  == [i \in 1..(NumFrames * tfdf_len) |->
                    TfdfByte(((i - 1) \div tfdf_len) + 1, ((i - 1) % tfdf_len) + 1)]
PlacedBytes   == SelectSeq(AllTfdfBytes, IsLabel)
\* packets of the stream whose last byte has been read
NumArrived    == Cardinality({k \in 1..Len(fr_lens) : PktOff(k) + fr_lens[k] <= fr_nread})
RECURSIVE DataOf(_)
DataOf(q)     == IF q = <<>> THEN <<>> ELSE Head(q).data \o DataOf(Tail(q))
RestOf(pkt)   == Slice(pkt.data, pkt.pos, pkt.len)

\* ---- C1: for every split of the tagged stream into invocations, each packet
\* whose bytes have all been read has been queued exactly once, built from the
\* L input bytes at its tag offset, and the packet bytes placed in the TFDFs,
\* followed by the rest of the continuation packet and the queue, are the
\* bytes of those packets in arrival order (none lost, duplicated or altered).
C1_PacketsQueuedOnceInOrder ==
  /\ fr_queued = [k \in 1..NumArrived |->
                    [data |-> PktBytes(k), pos |-> 0, len |-> fr_lens[k]]]
  /\ PlacedBytes \o RestOf(fr_cur_pkt) \o DataOf(fr_spp_queue)
       = SubSeq(InBytes, 1, PktOff(NumArrived + 1))

\* ---- C2: for every split of a stream of back-to-back Space Packets and every
\* output window, the tags emitted so far are those of the first packets of
\* the stream, one per packet, at the output offset of the packet's first byte
\* with value 6 + D + 1, and no other tag; once the whole stream has been
\* written every packet has its tag.
TagExpected ==
  [k \in 1..Len(tg_D) |-> [offset |-> SppOff(tg_D, k), value |-> 6 + tg_D[k] + 1]]
C2_OneTagPerPacket ==
  \E n \in 0..Len(tg_D) :
     /\ tg_otags = SubSeq(TagExpected, 1, n)
     /\ Len(tg_out) = Len(TagIn) => n = Len(tg_D)

\* ---- C3: a frame B encoded (K = 7, 171/133, register reset per frame), mapped
\* to +1/-1 softs and decoded in pm1 mode comes out as B, with a length tag
\* equal to its number of bytes: once all frames have been decoded and
\* written, the output is the concatenation of the frames and the tags are
\* one per frame at its first byte.
RECURSIVE FrameTags(_, _)
FrameTags(fs, off) ==
  IF fs = <<>> THEN <<>>
  ELSE << [offset |-> off, value |-> Len(Head(fs))] >>
       \o FrameTags(Tail(fs), off + Len(Head(fs)))
VitDone == /\ vt_nread = Len(vt_softs)
           /\ vt_outbuf = <<>>
C3_ViterbiRoundTrip ==
  VitDone => /\ vt_out = Flatten(vt_frames)
             /\ vt_otags = FrameTags(vt_frames, 0)

\* ---- C4: every emitted frame is exactly frame_len bytes (6-byte header with
\* the configured identifiers, TFDF, FECF when enabled), frames are written
\* back-to-back, and each frame has exactly one length tag, of value
\* frame_len, at the offset of its first byte.
C4_FrameLengthAndTag ==
  /\ Len(fr_out) = NumFrames * frame_len
  /\ Len(fr_otags) = NumFrames
  /\ \A k \in 1..NumFrames :
        /\ fr_frames[k].len = header_len + tfdf_len + (IF fr_cfg.include_fecf THEN 2 ELSE 0)
        /\ fr_frames[k].off = (k - 1) * frame_len
        /\ fr_otags[k] = [offset |-> (k - 1) * frame_len, value |-> frame_len]
        /\ FrameByte(k, 1) * 256 + FrameByte(k, 2) = SCID * 16 + VCID * 2
        /\ FrameByte(k, 5) \div 8 = 0

C4_Witness ==
  /\ fr_cfg.include_fecf /\ fr_last.produced = 2 * frame_len /\ NumFrames = 3

\* ---- C5: with idle emission disabled (TFDF < 2046 bytes) the FHP of every
\* frame is the TFDF offset of the first Space Packet header that begins in
\* the frame, and 0x7FF when none begins there.
C5_FhpFirstHeader ==
  ~fr_cfg.emit_idle =>
    \A k \in 1..NumFrames :
       FhpOf(k) = IF HeaderOffsets(k) = {} THEN FHP_NONE ELSE SetMin(HeaderOffsets(k))

\* ---- C6: with idle emission enabled a frame has FHP = 0x7FE exactly when its
\* TFDF holds no packet byte, and a frame holding only continuation bytes
\* (no packet header begins in it) has FHP = 0x7FF.
C6_OnlyIdleFhp ==
  fr_cfg.emit_idle =>
    \A k \in 1..NumFrames :
       /\ (FhpOf(k) = FHP_OID) <=> (SelectSeq(TfdfOf(k), IsLabel) = <<>>)
       /\ (SelectSeq(TfdfOf(k), IsLabel) # <<>> /\ HeaderOffsets(k) = {})
             => FhpOf(k) = FHP_NONE

\* ---- C7: the k-th emitted frame (k = 0, 1, ...) carries master-channel and
\* virtual-channel counters equal to k mod 256.
C7_CountersModulo256 ==
  \A k \in 1..NumFrames :
     /\ FrameByte(k, 3) = (k - 1) % 256
     /\ FrameByte(k, 4) = (k - 1) % 256

C7_Witness == NumFrames >= 258 /\ FrameByte(258, 4) = 1

\* ---- C8: a packet that does not fit is split: the part that fits fills the
\* frame, the remainder is kept as the continuation packet and opens the next
\* frame before any new packet; a packet is cut only at the end of a full
\* TFDF.  For queued packets of 500, 700 and 600 bytes and a 1103-byte TFDF,
\* frame 1 has FHP 0 and holds packet 1 and the first 603 bytes of packet 2,
\* frame 2 holds the last 97 bytes of packet 2, then packet 3, with FHP 97.
LastLabels  == {fr_queued[i].data[fr_queued[i].len] : i \in 1..Len(fr_queued)}
FirstLabels == {fr_queued[i].data[1] : i \in 1..Len(fr_queued)}
CutAtEnd(k) == IsLabel(TfdfByte(k, tfdf_len)) /\ TfdfByte(k, tfdf_len) \notin LastLabels
NumLabels(k) == Len(SelectSeq(TfdfOf(k), IsLabel))

C8_SplitAndContinue ==
  /\ PlacedBytes \o RestOf(fr_cur_pkt) \o DataOf(fr_spp_queue) = DataOf(fr_queued)
  /\ \A k \in 1..NumFrames : \A n \in {NumLabels(k)} :
        /\ \A j \in 1..tfdf_len : IsLabel(TfdfByte(k, j)) <=> j <= n
        /\ (n > 0 /\ n < tfdf_len) => TfdfByte(k, n) \in LastLabels
        /\ CutAtEnd(k) =>
              IF k < NumFrames
              THEN IsLabel(TfdfByte(k + 1, 1)) /\ TfdfByte(k + 1, 1) \notin FirstLabels
              ELSE fr_cur_pkt # NoPkt /\ RestOf(fr_cur_pkt) # <<>>
        /\ (~CutAtEnd(k) /\ k = NumFrames) => fr_cur_pkt = NoPkt
  /\ (fr_lens = SegLens /\ fr_cfg = SegCfg /\ NumFrames >= 1 /\ fr_frames[1].nq = 3) =>
        /\ FhpOf(1) = 0
        /\ TfdfOf(1) = PktBytes(1) \o SubSeq(PktBytes(2), 1, 603)
        /\ NumFrames >= 2 =>
              /\ SubSeq(TfdfOf(2), 1, 97) = SubSeq(PktBytes(2), 604, 700)
              /\ SubSeq(TfdfOf(2), 98, 697) = PktBytes(3)
              /\ FhpOf(2) = 97

C8_Witness ==
  /\ fr_lens = SegLens /\ fr_cfg = SegCfg /\ NumFrames >= 2 /\ fr_frames[1].nq = 3
  /\ FhpOf(2) = 97 /\ fr_cur_pkt = NoPkt

\* ---- C9: every data-field byte of every emitted frame is a packet byte or
\* the idle fill byte.
C9_DataFieldFullyOccupied ==
  \A k \in 1..NumFrames : \A j \in 1..tfdf_len :
     IsLabel(TfdfByte(k, j)) \/ TfdfByte(k, j) = IDLE_FILL

\* ---- C10: with idle emission disabled, an invocation that has no queued
\* packet and no continuation packet emits no frame, and no emitted frame has
\* a TFDF without packet bytes.
C10_NoEmptyFrames ==
  ~fr_cfg.emit_idle =>
    /\ (fr_last.ran /\ ~fr_last.had_data) => fr_last.produced = 0
    /\ \A k \in 1..NumFrames : SelectSeq(TfdfOf(k), IsLabel) # <<>>

\* ---- C11: the framer's output for a fixed tagged stream does not depend on
\* how the scheduler splits the input or on the output room it offers: once
\* the whole stream has been read and every packet placed, the bytes written
\* (frames, their TFDFs, FHPs and counters) are those of the single invocation
\* that is handed the whole stream and room for just the frames it needs.
\* the state handed to the frame loop when the whole stream arrives at once
WholeStream ==
  [queue |-> Carve(InBytes, collect_spp_tags(<<>>, 0, SumSeq(fr_lens)), <<>>).queue,
   cur |-> NoPkt, mc |-> 0, vc |-> 0, out |-> <<>>, tags |-> <<>>, log |-> <<>>,
   produced |-> 0]
OneShot(k) == Assemble(WholeStream, k * frame_len, 0)
\* the least number of frames that carries every packet of the stream
RefFrames ==
  CHOOSE k \in 0..SumSeq(fr_lens) :
     /\ \E r \in {OneShot(k)} : r.queue = <<>> /\ r.cur = NoPkt
     /\ \A j \in 0..(k - 1) : \E r \in {OneShot(j)} : ~(r.queue = <<>> /\ r.cur = NoPkt)
AllPlaced == /\ fr_nread = SumSeq(fr_lens)
             /\ fr_spp_queue = <<>>
             /\ fr_cur_pkt = NoPkt
C11_OutputIndependentOfSchedule ==
  AllPlaced => \A k \in {RefFrames} : fr_out = OneShot(k).out

\* ---- C12: the decoder's trellis makes the encoder's transitions: for every
\* state s in 0..63 and input bit u, next_state(s, u) = ((s << 1) | u) & 0x3F
\* and expected_output(s, u) = (parity(((s << 1) | u) & 0o171),
\* parity(((s << 1) | u) & 0o133)), the bits the encoder emits for that step.
C12_TrellisMatchesEncoder ==
  \A s \in 0..(NSTATES - 1), u \in 0..1 :
     (2 * s) + u < tb_pos =>
        /\ tb_ns[s][u] = ((s * 2) + u) % 64
        /\ tb_obit[s][u] = conv_encode_bits(<<u>>, s)

\* ---- C13: for every input frame, whatever positive number n of coded bits
\* its length tag declares, the decoder emits exactly one output length tag,
\* at the output offset of the frame's first decoded byte, whose value is the
\* number of bytes it writes for that frame (n \div 2 decoded bits packed
\* into whole bytes); so the tags emitted so far are those of the first
\* frames, and once every frame has been decoded and written each has its tag.
\* bytes the decoder writes for a frame of n coded bits (lines 173-180)
DecodedLen(n) == ((n \div 2) + 7) \div 8
RECURSIVE DecodedTags(_, _)
DecodedTags(tags, off) ==
  IF tags = <<>> THEN <<>>
  ELSE << [offset |-> off, value |-> DecodedLen(Head(tags).value)] >>
       \o DecodedTags(Tail(tags), off + DecodedLen(Head(tags).value))
C13_OneTagPerDecodedFrame ==
  \E n \in 0..Len(vt_itags) :
     /\ vt_otags = SubSeq(DecodedTags(vt_itags, 0), 1, n)
     /\ (VitDone /\ vt_inbuf = <<>>) => n = Len(vt_itags)

\* ---- C14: with the randomizer enabled and per-frame restart on, byte i of
\* every tagged frame leaves as input XOR PN_i, PN being the byte sequence of
\* the 15-bit register started from the seed (each PN bit is bit 14 of the
\* register, which then shifts left with bit 14 XOR bit 13 entering bit 0;
\* eight bits per byte, MSB first), whatever the position of the frame in the
\* stream, the split into invocations and the output room; the stage writes
\* one byte per byte read and re-emits each frame's length tag at its first byte.
RECURSIVE PnReg(_, _)
PnReg(seed, j) ==
  IF j = 0 THEN seed
  ELSE LET r == PnReg(seed, j - 1)
       IN  ((r * 2) % 32768) + BitXor((r \div 16384) % 2, (r \div 8192) % 2)
PnBit(seed, j) == (PnReg(seed, j) \div 16384) % 2
PnByte(seed, i) ==
  LET b(n) == PnBit(seed, (8 * (i - 1)) + n)
  IN  (128 * b(0)) + (64 * b(1)) + (32 * b(2)) + (16 * b(3))
      + (8 * b(4)) + (4 * b(5)) + (2 * b(6)) + b(7)
C14_FrameBytesXorPn ==
  /\ Len(rz1.out) = rz1.nread
  /\ \A k \in 1..Len(rz_cfg.lens) : \A i \in 1..rz_cfg.lens[k] :
        RzOff(k) + i <= Len(rz1.out) =>
           rz1.out[RzOff(k) + i] = BitXor(RzIn[RzOff(k) + i], PnByte(rz_cfg.seed, i))
  /\ \E n \in 0..Len(RzTags) : rz1.otags = SubSeq(RzTags, 1, n)

\* two frames of two bytes, each byte handled by an invocation of its own
C14_Witness ==
  /\ rz_cfg.lens = <<2, 2>>
  /\ Len(rz1.out) = 4
  /\ rz1.calls = 4
  /\ rz1.out[3] # RzIn[3]

\* ---- C15: a tagged frame passed through the randomizer stage twice (two
\* instances, same seed, per-frame restart, the second fed the bytes and the
\* length tag the first has written) comes out as the original frame bytes,
\* for every frame and seed.
C15_RandomizerInvolution ==
  /\ Len(rz2.out) = rz2.nread
  /\ \A i \in 1..Len(rz2.out) : rz2.out[i] = RzIn[i]

\* two frames have passed both instances, which were handed different splits
C15_Witness ==
  /\ Len(rz_cfg.lens) = 2
  /\ Len(rz2.out) = Len(RzIn)
  /\ rz1.calls # rz2.calls
  /\ rz1.out # RzIn

\* ---- reading the Reed-Solomon stage's output
RsBlockLen == RS_N * rs_cfg.I
RsNumBlocks == Len(rs_otags)
\* byte w (from 0) of codeblock k (from 1)
RsBlockByte(k, w) == rs_out[((k - 1) * RsBlockLen) + w + 1]
\* codeword j (from 0) of codeblock k, de-interleaved
RsOutCodeword(k, j) == [n \in 1..RS_N |-> RsBlockByte(k, ((n - 1) * rs_cfg.I) + j)]

\* ---- C16: for each input frame of 223 I bytes the stage writes a codeblock
\* of 255 I bytes with one length tag 255 I at its first byte, in which
\* output[n I + j] = codeword_j[n] (n in 0..254, j in 0..I-1), codeword_j
\* being the 223 bytes frame[n I + j] followed by the 32 parity bytes of that
\* sub-sequence; so the information sections, re-interleaved, are the frame.
RsSubSeq(k, j) == [n \in 1..RS_K |-> RsFrame(k)[((n - 1) * rs_cfg.I) + j + 1]]
C16_InterleavedCodeblock ==
  /\ Len(rs_out) = RsNumBlocks * RsBlockLen
  /\ rs_nread \in {0, rs_cfg.lead + (RsNumBlocks * rs_tm_len)}
  /\ \A k \in 1..RsNumBlocks :
        /\ rs_otags[k] = [offset |-> (k - 1) * RsBlockLen, value |-> RsBlockLen]
        /\ \A j \in 0..(rs_cfg.I - 1) :
              RsOutCodeword(k, j)
                 = RsSubSeq(k, j) \o rs_encode_223_255(RsSubSeq(k, j))
        /\ \A m \in 0..(rs_tm_len - 1) : RsBlockByte(k, m) = RsFrame(k)[m + 1]

\* two frames of different data, depth 2, behind an untagged byte
C16_Witness ==
  /\ rs_cfg.I = 2 /\ rs_cfg.lead = 1 /\ rs_cfg.pats = <<1, 2>>
  /\ RsNumBlocks = 2
  /\ rs_nread = 1 + (2 * rs_tm_len)

\* ---- C17: the 32 parity bytes of every 223-byte message are the remainder
\* of x^32 msg(x) divided by g(x) = (x - a^1) ... (x - a^32) over GF(256) with
\* primitive polynomial 0x11D and a = 2: the codeword msg followed by parity
\* has msg as its first 223 bytes and evaluates to zero at a^1 .. a^32.
\* multiplication by a = 2 in GF(256) modulo x^8 + x^4 + x^3 + x^2 + 1
GfTimes2(x) == IF x >= 128 THEN BitXor((2 * x) % 256, 29) ELSE 2 * x
\* the tables hold the powers of a, and the logarithm inverts them
GfTablesRight ==
  /\ gf_exp(0) = 1
  /\ \A i \in 0..253 : gf_exp(i + 1) = GfTimes2(gf_exp(i))
  /\ Cardinality({gf_exp(i) : i \in 0..254}) = 255
  /\ \A i \in 0..254 : gf_log(gf_exp(i)) = i
\* the term cw[i] x^(255 - i) of the codeword polynomial at x = a^e
CwTerm(cw, i, e) ==
  IF cw[i] = 0 THEN 0 ELSE gf_exp((gf_log(cw[i]) + (e * (RS_N - i))) % 255)
RECURSIVE CwEval(_, _, _, _)
CwEval(cw, lo, hi, e) ==
  IF lo = hi THEN CwTerm(cw, lo, e)
  ELSE byte_xor(CwEval(cw, lo, (lo + hi) \div 2, e),
                CwEval(cw, ((lo + hi) \div 2) + 1, hi, e))
C17_ParityIsRemainder ==
  /\ GfTablesRight
  /\ \A k \in 1..RsNumBlocks : \A j \in 0..(rs_cfg.I - 1) :
        \A cw \in {RsOutCodeword(k, j)} :
           /\ SubSeq(cw, 1, RS_K) = RsSubSeq(k, j)
           /\ \A e \in 1..RS_NPAR : CwEval(cw, 1, RS_N, e) = 0

\* a codeword with non-zero parity has been written
C17_Witness ==
  /\ RsNumBlocks >= 1
  /\ rs_cfg.I = 1
  /\ SubSeq(rs_out, RS_K + 1, RS_N) # Zeros(RS_NPAR)
  /\ Len(SubSeq(rs_out, RS_K + 1, RS_N)) = 32

\* ---- C18: for every tagged input frame of L bytes the ASM inserter writes
\* 0x1A 0xCF 0xFC 0x1D followed by the L frame bytes unchanged, with exactly
\* one length tag, of value L + 4, on the first marker byte, and consumes
\* exactly the L input bytes; for contiguous frames the output is the
\* concatenation of the marker-prefixed frames in input order.
AsmFrameIn(k) == SubSeq(AsmIn, AsmOff(k) + 1, AsmOff(k) + as_cfg.lens[k])
RECURSIVE AsmExpected(_)
AsmExpected(n) ==
  IF n = 0 THEN <<>> ELSE AsmExpected(n - 1) \o <<26, 207, 252, 29>> \o AsmFrameIn(n)
AsmExpectedTags(n) ==
  [k \in 1..n |-> [offset |-> (AsmOff(k) - as_cfg.lead) + (4 * (k - 1)),
                   value |-> as_cfg.lens[k] + 4]]
C18_AsmPrefixedFrames ==
  \E n \in 0..Len(as_cfg.lens) :
     /\ as_out = AsmExpected(n)
     /\ as_otags = AsmExpectedTags(n)
     /\ as_nread \in {0, AsmOff(n + 1)}
     /\ as_last.ret > 0 => /\ n > 0
                           /\ as_last.ret = as_cfg.lens[n] + 4
                           /\ as_last.consumed = as_cfg.lens[n]

\* three contiguous frames of different lengths have left, behind an untagged byte
C18_Witness ==
  /\ as_cfg.lead = 1 /\ as_cfg.lens = <<2, 1, 2>>
  /\ Len(as_otags) = 3
  /\ as_nread = AsmInLen

\* ---- C19: the coded bits of each frame depend only on that frame's bytes:
\* the register is zero at the first bit of every frame; for each input bit b,
\* taken MSB-first, the register becomes ((reg << 1) | b) & 0x7F and the
\* encoder outputs parity(reg & 0x79) then parity(reg & 0x5B); the coded bits
\* are packed MSB-first into bytes.
RefBit(x, p) == (x \div (2 ^ p)) % 2
RefParity(x, taps) == (SumSeq([p \in 1..7 |-> RefBit(x, p - 1) * RefBit(taps, p - 1)])) % 2
RefInBit(f, i) == RefBit(f[((i - 1) \div 8) + 1], 7 - ((i - 1) % 8))
RECURSIVE RefReg(_, _)
RefReg(f, i) == IF i = 0 THEN 0 ELSE ((RefReg(f, i - 1) * 2) + RefInBit(f, i)) % 128
RefCodedBit(f, j) ==
  IF j % 2 = 1 THEN RefParity(RefReg(f, (j + 1) \div 2), 121)
               ELSE RefParity(RefReg(f, j \div 2), 91)
RefCodedByte(f, m) == SumSeq([q \in 1..8 |-> RefCodedBit(f, (8 * (m - 1)) + q) * (2 ^ (8 - q))])
RefCoded(f) == [m \in 1..(2 * Len(f)) |-> RefCodedByte(f, m)]
EncIngested == Cardinality({k \in 1..Len(ce_frames) : EncOff(k + 1) <= ce_nread})
C19_CodedBitsOfFrameOnly ==
  /\ ce_state = 0
  /\ \A k \in 1..EncIngested :
        SubSeq(ce_out \o ce_outbuf, (2 * EncOff(k)) + 1, 2 * EncOff(k + 1)) = RefCoded(ce_frames[k])

\* a frame that leaves set bits in the register is followed by a second frame
\* whose coded bytes are all out
C19_Witness ==
  /\ ce_frames = << <<255>>, <<16, 192>> >>
  /\ Len(ce_out) = 6
  /\ ce_out[3] # 0

\* ---- C20: for every complete input frame of L bytes the encoder emits
\* exactly 2L bytes and exactly one length tag, of value 2L, at the output
\* offset of the frame's first encoded byte, for every split of its output
\* across invocations; encoded frames leave in the order the frames arrived.
RECURSIVE EncExpected(_)
EncExpected(n) ==
  IF n = 0 THEN <<>> ELSE EncExpected(n - 1) \o bits_to_bytes(EncodeFrame(ce_frames[n]))
EncStarted == Cardinality({k \in 1..Len(ce_frames) : 2 * EncOff(k) < Len(ce_out)})
C20_DoubledFramesOneTagEach ==
  /\ ce_out \o ce_outbuf = EncExpected(EncIngested)
  /\ Len(ce_out \o ce_outbuf) = 2 * EncOff(EncIngested + 1)
  /\ ce_otags = [k \in 1..EncStarted |-> [offset |-> 2 * EncOff(k),
                                          value |-> 2 * Len(ce_frames[k])]]

\* the second frame's four coded bytes are cut behind the third one
C20_Witness ==
  /\ ce_frames = << <<1>>, <<16, 192>> >>
  /\ Len(ce_otags) = 2
  /\ ce_head_remaining = 1
  /\ Len(ce_out) = 5

\* ---- C21: the encoder delimits frames by its input length tags: for each
\* tag at input offset o with value L it encodes exactly the input bytes
\* o .. o+L-1 as one frame, also when bytes of the stream are covered by no
\* tag (before the first tag or between frames).
EncTagged(k) == SubSeq(EncIn, EncInTags[k].offset + 1, EncInTags[k].offset + EncInTags[k].value)
EncOutOff(k) == 2 * SumSeq([i \in 1..(k - 1) |-> EncInTags[i].value])
EncRead == {k \in 1..Len(EncInTags) : EncInTags[k].offset + EncInTags[k].value <= ce_nread}
C21_FramesDelimitedByTags ==
  \A k \in EncRead :
     /\ Len(ce_out \o ce_outbuf) >= EncOutOff(k + 1)
     /\ SubSeq(ce_out \o ce_outbuf, EncOutOff(k) + 1, EncOutOff(k + 1))
          = bits_to_bytes(EncodeFrame(EncTagged(k)))

\* ---- C22: in the chain TM framer -> randomizer -> RS encoder -> ASM
\* inserter -> convolutional encoder with I = 5 and frame_len = 1115, every
\* frame the framer emits yields exactly one coded frame of 2558 bytes at the
\* encoder output (1115 -> 1115 -> 1275 -> 1279 -> 2558, one length tag of
\* that value per stage and frame), and the coded frames leave in the order
\* of their TM frames, under any interleaving of the stages' invocations.
FramesIn(out, L) == (Len(out) + L - 1) \div L
OneTagPerFrame(out, tags, L) ==
  tags = [k \in 1..FramesIn(out, L) |-> [offset |-> L * (k - 1), value |-> L]]
\* byte j of the k-th marked codeblock: the marker, the TM frame as the
\* randomizer leaves it, the parity bytes
CaduByte(k, j) ==
  IF j <= 4 THEN <<26, 207, 252, 29>>[j]
  ELSE IF j <= 1119 THEN 255 - fr_out[(1115 * (k - 1)) + (j - 4)]
  ELSE 0
Coded(k) == [i \in 1..2558 |-> CaduByte(k, (i + 1) \div 2)]
CodedByte(i) == Coded(((i - 1) \div 2558) + 1)[((i - 1) % 2558) + 1]
ChainSafe ==
  /\ Len(fr_out) = 1115 * Len(fr_otags)
  /\ OneTagPerFrame(fr_out, fr_otags, 1115)
  /\ OneTagPerFrame(rz1.out, rz1.otags, 1115)
  /\ OneTagPerFrame(rs_out, rs_otags, 1275) /\ Len(rs_out) % 1275 = 0
  /\ OneTagPerFrame(as_out, as_otags, 1279) /\ Len(as_out) % 1279 = 0
  /\ OneTagPerFrame(ce_out, ce_otags, 2558)
  /\ Len(ce_out) <= 2558 * Len(fr_otags)
  /\ \A k \in 1..Len(fr_otags) :
        Len(ce_out) >= 2558 * k => SubSeq(ce_out, (2558 * (k - 1)) + 1, 2558 * k) = Coded(k)
  /\ Len(ce_out) % 2558 # 0 => ce_out[Len(ce_out)] = CodedByte(Len(ce_out))
ChainDone == Len(ce_out) = 2558 * Len(fr_otags)
C22_OneCodedFramePerTmFrame == []ChainSafe /\ <>[]ChainDone

\* two TM frames have left the encoder as two coded frames
C22_Witness ==
  /\ tx_chain
  /\ Len(fr_otags) = 2
  /\ Len(ce_otags) = 2
  /\ Len(ce_out) = 5116

\* ---------------------------------------------------------------- L7 packets
\* the receiver has processed the datagram with this command line
L7Got(sec, mic, config) ==
  /\ l7_rx.got
  /\ l7_rx.cfg.sec_mode_cli.mode = sec
  /\ l7_rx.cfg.mic_mode = mic
  /\ l7_rx.cfg.has_config = config
\* the profile and the locals of the build behind the datagram
TxProf == l7_sel[l7_tx[1].idx]
Tx     == l7_tx[1]

\* C23: a packet built by the sender and processed by a receiver that has the
\* same profiles, sec-mode auto and MIC mode auto, comes out as one packet
\* with the type, secondary-header flag, APID, sequence count, secondary
\* header bytes and user bytes (padded body, without MIC) that were encoded
C23_RoundTrip ==
  (L7Got("auto", "auto", TRUE) /\ Tx.flip = 0) =>
     /\ Len(l7_rx.out) = 1
     /\ l7_rx.out[1].type = TxProf.type
     /\ l7_rx.out[1].shf = (IF Len(Tx.sec_hdr) > 0 THEN 1 ELSE 0)
     /\ l7_rx.out[1].apid = TxProf.apid
     /\ l7_rx.out[1].seq_count = Tx.seq_count
     /\ l7_rx.out[1].sec_hdr = Tx.sec_hdr
     /\ l7_rx.out[1].user = Tx.user

\* what a profile asks for: the length of its secondary header, its body,
\* its pad byte, the length of its MIC and of its data field
SecLenOf(prof) ==
  IF prof.sec_hdr.mode = "none" THEN 0
  ELSE IF prof.sec_hdr.mode = "fixed" THEN Len(prof.sec_hdr.hex) ELSE 8
BodyOf(prof) ==
  IF prof.body.mode = "ascii" THEN encode_ascii(prof.body.text)
  ELSE (IF prof.body.pattern16 THEN [i \in 1..16 |-> i - 1] ELSE <<>>)
       \o [i \in 1..prof.body.extra_bytes |-> (i - 1) % 256]
PadOf(prof) ==
  IF prof.body.mode = "ascii" THEN (16 * prof.body.pad_byte[1]) + prof.body.pad_byte[2]
  ELSE 0
MicLenOf(prof) == IF prof.use_mic THEN 4 ELSE 0
FieldLenOf(prof) ==
  IF prof.has_len THEN prof.data_field_len
  ELSE SecLenOf(prof) + Len(BodyOf(prof)) + MicLenOf(prof)
UserLenOf(prof) == FieldLenOf(prof) - SecLenOf(prof) - MicLenOf(prof)
\* the body padded with the pad byte, or cut, to n bytes
PaddedTo(prof, n) ==
  [i \in 1..n |-> IF i <= Len(BodyOf(prof)) THEN BodyOf(prof)[i] ELSE PadOf(prof)]

\* the sender has been through build_packet_for_profile for its first profile
L7Built == l7_tx # <<>> \/ l7_err # ""
\* the packet of declared length: what the build of profile prof must have left
PacketAsDeclared(prof) ==
  /\ l7_err = ""
  /\ l7_tx # <<>>
  /\ Len(l7_dgram) = 6 + FieldLenOf(prof)
  /\ (l7_dgram[5] * 256) + l7_dgram[6] = FieldLenOf(prof) - 1
  /\ Len(l7_dgram) = 6 + ((l7_dgram[5] * 256) + l7_dgram[6]) + 1
  /\ (l7_dgram[1] \div 8) % 2 = (IF SecLenOf(prof) >= 1 THEN 1 ELSE 0)
  /\ Len(Tx.sec_hdr) = SecLenOf(prof)
  /\ Tx.flip = 0 =>
       SubSeq(l7_dgram, 7 + SecLenOf(prof), 6 + SecLenOf(prof) + UserLenOf(prof))
         = PaddedTo(prof, UserLenOf(prof))

\* C24 as stated: every profile (APID within 11 bits) whose data_field_len is
\* at least its secondary-header length plus 4 for a MIC is built into a packet
\* of 6 + data_field_len bytes with length field data_field_len - 1, the
\* secondary-header flag set exactly when there are secondary-header bytes,
\* and the body padded or cut to the user length
C24_PacketOfDeclaredLength ==
  (L7Built /\ l7_count_per = 1 /\ l7_sel[1].apid <= 2047
     /\ FieldLenOf(l7_sel[1]) >= SecLenOf(l7_sel[1]) + MicLenOf(l7_sel[1]))
  => PacketAsDeclared(l7_sel[1])

\* C24 amended: the same for the profiles whose data field has at least one
\* byte and at most 65536; an empty data field has no length field, and
\* pack_primary_header refuses it
C24_PacketOfDeclaredLengthNonEmpty ==
  (L7Built /\ l7_count_per = 1 /\ l7_sel[1].apid <= 2047
     /\ FieldLenOf(l7_sel[1]) >= SecLenOf(l7_sel[1]) + MicLenOf(l7_sel[1])
     /\ FieldLenOf(l7_sel[1]) >= 1 /\ FieldLenOf(l7_sel[1]) <= 65536)
  => PacketAsDeclared(l7_sel[1])

\* a 16-byte body cut to the 4 bytes left between a 4-byte secondary header
\* and the MIC in a data field of 12
C24_Witness ==
  /\ l7_tx # <<>>
  /\ l7_sel[1].body.mode = "pattern"
  /\ l7_sel[1].use_mic
  /\ Len(Tx.sec_hdr) = 4
  /\ Tx.user = <<0, 1, 2, 3>>
  /\ Len(l7_dgram) = 18

\* CRC-32C as defined: the register starts at FFFFFFFF, takes the data bits
\* least significant first, is divided by the reflected polynomial 0x82F63B78,
\* and is inverted at the end
RECURSIVE RefCrcBits(_, _)
RefCrcBits(crc, k) ==
  IF k = 0 THEN crc
  ELSE RefCrcBits(IF crc[4] % 2 = 1 THEN Xor32(Shr1(crc), <<130, 246, 59, 120>>)
                  ELSE Shr1(crc), k - 1)
\* the register c behind the bytes data[lo..hi]
RECURSIVE RefCrcOver(_, _, _, _)
RefCrcOver(data, lo, hi, c) ==
  IF lo > hi THEN c
  ELSE IF lo = hi
  THEN Strict(c, LAMBDA r : RefCrcBits(<<r[1], r[2], r[3], BitXor(r[4], data[lo])>>, 8))
  ELSE Strict(RefCrcOver(data, lo, (lo + hi) \div 2, c),
              LAMBDA r : RefCrcOver(data, ((lo + hi) \div 2) + 1, hi, r))
RefCrc32c(data) ==
  Xor32(RefCrcOver(data, 1, Len(data), <<255, 255, 255, 255>>), <<255, 255, 255, 255>>)

\* C25: in a packet of a profile with the MIC enabled, the last 4 bytes of
\* the data field are the CRC-32C, most significant byte first, of the padded
\* user bytes alone; they follow the user bytes, which follow the secondary
\* header, and neither header is covered
C25_MicOverUserBytesOnly ==
  (l7_tx # <<>> /\ l7_sel[1].use_mic /\ Tx.flip = 0) =>
     /\ SubSeq(l7_dgram, Len(l7_dgram) - 3, Len(l7_dgram)) = RefCrc32c(Tx.user)
     /\ Tx.user = PaddedTo(l7_sel[1], UserLenOf(l7_sel[1]))
     /\ l7_dgram = SubSeq(l7_dgram, 1, 6) \o Tx.sec_hdr \o Tx.user \o RefCrc32c(Tx.user)

\* the fixed secondary header DEADBEEF with data_field_len 32: length field
\* 31 and a MIC over 24 user bytes
C25_Witness ==
  /\ l7_tx # <<>>
  /\ l7_sel[1] = FixedMic32
  /\ Tx.sec_hdr = <<222, 173, 190, 239>>
  /\ Len(Tx.user) = 24
  /\ (l7_dgram[5] * 256) + l7_dgram[6] = 31
  /\ Len(l7_dgram) = 38
  /\ SubSeq(l7_dgram, 35, 38) = RefCrc32c(SubSeq(l7_dgram, 11, 34))

\* the bytes behind the secondary header of a processed packet end in the
\* CRC-32C of the bytes before them
MicMatches(o) ==
  /\ Len(o.rest) >= 4
  /\ SubSeq(o.rest, Len(o.rest) - 3, Len(o.rest))
       = RefCrc32c(SubSeq(o.rest, 1, Len(o.rest) - 4))
\* the receiver runs with --sec-mode auto and its profile of the packet's
\* APID has use_mic true
MicExpected(o) ==
  /\ l7_rx.cfg.sec_mode_cli.mode = "auto"
  /\ l7_rx.cfg.has_config
  /\ \E i \in 1..Len(l7_sel) : l7_sel[i].apid = o.apid
  /\ l7_sel[CHOOSE i \in 1..Len(l7_sel) :
              /\ l7_sel[i].apid = o.apid
              /\ \A j \in 1..Len(l7_sel) : l7_sel[j].apid = o.apid => j <= i].use_mic
\* off mode, and a match in auto mode
MicOffAndMatch(o) ==
  /\ l7_rx.cfg.mic_mode = "off" =>
       o.mic_state = "OFF" /\ ~o.inspected /\ o.user = o.rest
  /\ (l7_rx.cfg.mic_mode \in {"auto", "on"} /\ MicMatches(o)) =>
       o.mic_state = "OK" /\ o.user = SubSeq(o.rest, 1, Len(o.rest) - 4)
  /\ (l7_rx.cfg.mic_mode = "on" /\ ~MicMatches(o)) =>
       o.mic_state = (IF Len(o.rest) >= 4 THEN "BAD" ELSE "SHORT") /\ o.user = o.rest

\* C26 as stated: OFF without inspection in off mode; in auto mode OK and the
\* user bytes without the last 4 when these are the CRC-32C of the rest, and
\* otherwise status none with the last 4 bytes left in the user bytes, never
\* BAD; in on mode BAD on a mismatch
C26_MicPolicy ==
  l7_rx.got =>
    \A k \in 1..Len(l7_rx.out) :
       /\ MicOffAndMatch(l7_rx.out[k])
       /\ (l7_rx.cfg.mic_mode = "auto" /\ ~MicMatches(l7_rx.out[k])) =>
            l7_rx.out[k].mic_state = "none" /\ l7_rx.out[k].user = l7_rx.out[k].rest

\* C26 amended: in auto mode a mismatch gives none only when no MIC is
\* expected; when the receiver runs with --sec-mode auto and its profile of
\* the APID has use_mic true, auto mode reports BAD (SHORT under 4 bytes)
\* as on mode does
C26_MicPolicyWithExpectation ==
  l7_rx.got =>
    \A k \in 1..Len(l7_rx.out) :
       /\ MicOffAndMatch(l7_rx.out[k])
       /\ (l7_rx.cfg.mic_mode = "auto" /\ ~MicMatches(l7_rx.out[k])) =>
            /\ l7_rx.out[k].user = l7_rx.out[k].rest
            /\ l7_rx.out[k].mic_state =
                 (IF ~MicExpected(l7_rx.out[k]) THEN "none"
                  ELSE IF Len(l7_rx.out[k].rest) >= 4 THEN "BAD" ELSE "SHORT")

\* auto mode, the profile expects a MIC, and one inverted user bit makes the
\* last 4 bytes a mismatch: BAD
C26_Witness ==
  /\ L7Got("auto", "auto", TRUE)
  /\ Tx.flip # 0
  /\ l7_sel[1].use_mic
  /\ Len(l7_rx.out) = 1
  /\ l7_rx.out[1].mic_state = "BAD"
  /\ l7_rx.out[1].user = l7_rx.out[1].rest

\* C27: inverting any one bit of the user bytes changes their crc32c, and a
\* packet built with a MIC whose user bytes had one bit inverted on the way is
\* never reported MIC OK by a receiver in on mode
C27_SingleBitFlipDetected ==
  (l7_tx # <<>> /\ Tx.flip # 0) =>
     /\ crc32c(FlipAt(Tx.user, Tx.flip)) # crc32c(Tx.user)
     /\ SubSeq(l7_dgram, 7 + Len(Tx.sec_hdr), 6 + Len(Tx.sec_hdr) + Len(Tx.user))
          = FlipAt(Tx.user, Tx.flip)
     /\ (l7_rx.got /\ l7_rx.cfg.mic_mode = "on" /\ l7_sel[1].use_mic) =>
          \A k \in 1..Len(l7_rx.out) : l7_rx.out[k].mic_state # "OK"

\* the last bit of two user bytes inverted under a MIC, and the receiver in
\* on mode, splitting the packet as it was built, reports BAD
C27_Witness ==
  /\ l7_tx # <<>>
  /\ Tx.flip = 16
  /\ Len(Tx.user) = 2
  /\ l7_sel[1].use_mic
  /\ l7_rx.got
  /\ l7_rx.cfg.mic_mode = "on"
  /\ Len(l7_rx.out) = 1
  /\ l7_rx.out[1].sec_len = Len(Tx.sec_hdr)
  /\ l7_rx.out[1].mic_state = "BAD"

\* the packet of CFDP_META with sequence count 0 and the given first six bytes
CfdpPacket(header) ==
  /\ Len(l7_dgram) = 144
  /\ SubSeq(l7_dgram, 1, 6) = header
  /\ SubSeq(l7_dgram, 7, 14) = Tx.sec_hdr
  /\ Tx.sec_hdr \in Clock
  /\ SubSeq(l7_dgram, 15, 24) = <<48, 46, 50, 49, 47, 100, 97, 116, 97, 47>>
  /\ \A i \in 25..140 : l7_dgram[i] = 0
  /\ SubSeq(l7_dgram, 141, 144) = RefCrc32c(SubSeq(l7_dgram, 15, 140))
CfdpBuilt == l7_sel[1] = CfdpMeta /\ l7_tx # <<>> /\ Tx.flip = 0 /\ Tx.seq_count = 0

\* C28 as stated: the profile {APID 0x0B3, TC, ns8, "0.21/data/", pad 00, MIC,
\* data_field_len 138} with sequence count 0 is built into 144 bytes: the
\* primary header 1A B3 C0 00 00 89, 8 bytes of time, the 10 text bytes and
\* 116 zero bytes, and the 4-byte MIC
C28_CfdpMetaPacket == CfdpBuilt => CfdpPacket(<<26, 179, 192, 0, 0, 137>>)

\* C28 amended: the same packet with the primary header 18 B3 C0 00 00 89,
\* w1 = (0 << 13) | (1 << 12) | (1 << 11) | 0x0B3 = 0x18B3
C28_CfdpMetaPacket18 == CfdpBuilt => CfdpPacket(<<24, 179, 192, 0, 0, 137>>)

\* the CFDP_META packet has been built
C28_Witness ==
  /\ l7_sel[1] = CfdpMeta
  /\ l7_tx # <<>>
  /\ l7_nsent = 1
  /\ Tx.seq_count = 0
  /\ Len(l7_dgram) = 144
  /\ l7_dgram[1] = 24
  /\ Len(Tx.user) = 126

\* ---------------------------------------------------------------- L7 send loop
\* C29: the packet built for a profile in round n of the send loop (its n-th
\* packet, n = 0, 1, 2, ...) carries sequence count n mod 16384 and sequence
\* flags 0b11, whatever the number of profiles taking turns with it
C29_SeqCountPerProfile ==
  l7_tx # <<>> =>
     /\ ((l7_dgram[3] * 256) + l7_dgram[4]) % 16384 = Tx.round % 16384
     /\ ((l7_dgram[3] * 256) + l7_dgram[4]) \div 16384 = 3
     /\ l7_seq[Tx.idx] = (Tx.round + 1) % 16384

\* the second of two profiles has sent 16384 packets and its next one carries
\* sequence count 0 again
C29_Witness ==
  /\ l7_tx # <<>>
  /\ Len(l7_sel) = 2
  /\ Tx.idx = 2
  /\ Tx.round = 16384
  /\ l7_nsent = 32770
  /\ SubSeq(l7_dgram, 3, 4) = <<192, 0>>

\* a profile with the MIC enabled whose data field cannot hold its secondary
\* header and the MIC
TooShortForMic(prof) ==
  prof.use_mic /\ prof.has_len /\ prof.data_field_len < SecLenOf(prof) + 4

\* C30: when a selected profile has a data_field_len smaller than its
\* secondary-header length plus 4 with the MIC enabled, no packet of any
\* selected profile has been built or sent
C30_RejectedBeforeAnyPacket ==
  (\E i \in 1..Len(l7_sel) : TooShortForMic(l7_sel[i])) =>
     l7_nsent = 0 /\ l7_tx = <<>> /\ l7_dgram = <<>>

\* ---- C31: with the FECF enabled, the last two bytes of every emitted frame
\* are the big-endian CRC-16 (polynomial 0x1021, initial value 0xFFFF, most
\* significant bit first, not reflected, no final XOR) of the frame_len - 2
\* bytes before them: the primary header with that frame's FHP and counters,
\* then the TFDF.
\* The reference register is driven one message bit at a time: the bit leaving
\* the register is compared with the message bit, and the polynomial is added
\* when they differ.
RefCrc16Bit(r, bit) ==
  LET top == (r \div 32768 + bit) % 2
      sh  == (r * 2) % 65536
  IN  IF top = 1 THEN BitXor(sh, 4129) ELSE sh
RECURSIVE RefCrc16Byte(_, _, _)
RefCrc16Byte(r, b, n) ==
  IF n = 0 THEN r
  ELSE Strict(RefCrc16Bit(r, (b \div (2 ^ (n - 1))) % 2),
              LAMBDA r2 : RefCrc16Byte(r2, b, n - 1))
RECURSIVE RefCrc16(_, _)
RefCrc16(data, k) ==
  IF k = 0 THEN 65535
  ELSE Strict(RefCrc16(data, k - 1), LAMBDA r : RefCrc16Byte(r, data[k], 8))
FrameBytes(k) == SubSeq(fr_out, fr_frames[k].off + 1, fr_frames[k].off + fr_frames[k].len)
FecfOf(k)     == FrameByte(k, fr_frames[k].len - 1) * 256 + FrameByte(k, fr_frames[k].len)
C31_FecfIsCrc16OfFrame ==
  fr_cfg.include_fecf =>
    \A k \in 1..NumFrames :
       /\ fr_frames[k].len = frame_len
       /\ FecfOf(k) = RefCrc16(FrameBytes(k), frame_len - 2)
       /\ SubSeq(FrameBytes(k), 1, header_len) = pack_primary_header(FhpOf(k), k - 1, k - 1)

\* two frames with the FECF, the second one with counters 1 and packet bytes
C31_Witness ==
  /\ fr_cfg.include_fecf /\ NumFrames >= 2
  /\ IsLabel(TfdfByte(2, 1)) /\ FrameByte(2, 3) = 1
  /\ FecfOf(2) = RefCrc16(FrameBytes(2), frame_len - 2)

\* ---- C32: when a flush message has reached the body packer while a partial
\* body of n bytes (0 < n < body_len) is buffered, an invocation that brings no
\* input and offers at least body_len bytes of room emits exactly one body,
\* the n buffered bytes followed by body_len - n pad bytes, tagged with
\* body_len at its first byte, and leaves the buffer empty and the flush
\* request cleared; an invocation with less room changes nothing, so the
\* request waits for the next one.  As long as no flush message arrived, the
\* output consists of whole bodies of input bytes only.
BpPartialFlushed ==
  bp_pending_flush /\ 0 < Len(bp_buf) /\ Len(bp_buf) < body_len
BpInvoked == bp_last'.call = bp_last.call + 1
BpFinalBody == bp_buf \o Fill(bp_cfg.pad_byte, body_len - Len(bp_buf))
BpOnlyWholeInputBodies(out, tags) ==
  /\ Len(out) % body_len = 0
  /\ out = SubSeq(BpIn, 1, Len(out))
  /\ tags = [k \in 1..(Len(out) \div body_len) |->
               [offset |-> (k - 1) * body_len, value |-> body_len]]
C32_FlushPadsPartialBody ==
  [][/\ (BpPartialFlushed /\ BpInvoked /\ bp_last'.n_in = 0) =>
          IF bp_last'.n_out >= body_len
          THEN /\ bp_out' = bp_out \o BpFinalBody
               /\ bp_otags' = Append(bp_otags, [offset |-> Len(bp_out), value |-> body_len])
               /\ bp_buf' = <<>>
               /\ bp_pending_flush' = FALSE
          ELSE UNCHANGED <<bp_out, bp_otags, bp_buf, bp_pending_flush>>
     /\ bp_nflush' = 0 => BpOnlyWholeInputBodies(bp_out', bp_otags')]_vars

\* a partial body was padded with at least one pad byte in an invocation that
\* brought no input, after whole bodies had been emitted
C32_Witness ==
  /\ bp_last.padded /\ bp_last.n_in = 0 /\ bp_last.produced = body_len
  /\ bp_buf = <<>> /\ ~bp_pending_flush
  /\ Len(bp_out) = 2 * body_len
  /\ bp_out[Len(bp_out)] = bp_cfg.pad_byte /\ bp_cfg.pad_byte = 7
  /\ IsLabel(bp_out[Len(bp_out) - body_len + 1])

\* ---- C37: a flush message that finds the packer's buffer empty has no
\* lasting effect: every padded body was requested by a flush message that
\* arrived while bytes were buffered.
C37_FlushOnEmptyBufferForgotten ==
  \A i \in 1..Len(bp_pads) : ~bp_pads[i]

\* ---- C33: a frame whose length tag is not 223 I is aborted and skipped: when
\* such a frame is at the head of the unread stream and a correctly tagged
\* frame follows it, an invocation that offers the whole unread stream and
\* room for a codeblock consumes input without emitting anything, and every
\* codeblock emitted carries the bytes of a correctly tagged frame.
RsGoodFrames == {k \in 1..Len(rs_cfg.pats) : RsFrameLen(k) = rs_tm_len}
RsWrongTagAtHead ==
  \E k \in 1..Len(rs_cfg.pats) :
     /\ RsFrameOff(k) = rs_nread
     /\ RsFrameLen(k) # rs_tm_len
     /\ \E j \in RsGoodFrames : j > k
\* the data symbols of codeblock b (from 1) in the output: its first tm_len bytes
RsEmittedData(b) ==
  SubSeq(rs_out, ((b - 1) * RS_N * rs_cfg.I) + 1, ((b - 1) * RS_N * rs_cfg.I) + rs_tm_len)
C33_WrongTagSkipped ==
  /\ RsWrongTagAtHead =>
        ENABLED (/\ rs_general_work(RsInLen - rs_nread, RS_N * rs_cfg.I)
                 /\ rs_nread' > rs_nread
                 /\ rs_otags' = rs_otags)
  /\ \A b \in 1..Len(rs_otags) : \E k \in RsGoodFrames : RsEmittedData(b) = RsFrame(k)

\* ---- C34: the randomizer forwards every input tag of another key exactly
\* once, to the output byte of the input byte that carried it, and re-emits
\* the length tag of every frame exactly once at the frame's first output
\* byte, whatever part of the input window an invocation consumes.  An output
\* byte has the offset of its input byte; a tag counts as due once its byte
\* has been consumed.
RzCount(seq, x) == Cardinality({i \in 1..Len(seq) : seq[i] = x})
RzTagDue(t) == t.offset < rz1.nread
C34_TagsForwardedOnce ==
  /\ \A i \in 1..Len(rz_cfg.marks) :
        /\ rz_cfg.marks[i] < rz1.nread => RzCount(rz1.omarks, rz_cfg.marks[i]) = 1
        /\ RzCount(rz1.omarks, rz_cfg.marks[i]) <= 1
  /\ \A i \in 1..Len(rz1.omarks) : RzCount(rz_cfg.marks, rz1.omarks[i]) = 1
  /\ rz1.otags = SelectSeq(RzTags, RzTagDue)

\* ---- C35: an invocation of the TM framer, the Reed-Solomon stage or the ASM
\* inserter whose output window is smaller than one whole output frame
\* produces nothing, consumes no input, adds no tag and leaves the stage's
\* counters, queues and buffers as they were.
\* The step is an invocation with the windows recorded in yl_last'.
FramerShortWindow == yl_last'.stage = "framer" /\ yl_last'.room < frame_len
RsShortWindow     == yl_last'.stage = "rs" /\ yl_last'.room < RS_N * rs_cfg.I
\* the frames of the ASM input stream that are not consumed yet
AsmPending == {k \in 1..Len(as_cfg.lens) : AsmOff(k) >= as_nread}
AsmNextLen == as_cfg.lens[CHOOSE k \in AsmPending : \A j \in AsmPending : k <= j]
AsmShortWindow ==
  /\ yl_last'.stage = "asm"
  /\ AsmPending # {}
  /\ yl_last'.room < AsmNextLen + Len(ASM_WORD)
FramerState == <<fr_nread, fr_inbuf, fr_pending_tags, fr_spp_queue, fr_cur_pkt,
                 fr_mc_cnt, fr_vc_cnt, fr_out, fr_otags>>
C35_ShortWindowYields ==
  [][/\ FramerShortWindow => UNCHANGED FramerState
     /\ RsShortWindow => UNCHANGED <<rs_nread, rs_out, rs_otags>>
     /\ AsmShortWindow => UNCHANGED <<as_nread, as_out, as_otags>>]_vars

\* ---- C35, amended: as above, except that the Reed-Solomon stage and the ASM
\* inserter may consume the untagged bytes ahead of the next length tag; no
\* byte of a tagged frame is consumed.
RsSkipsUntagged ==
  /\ rs_nread' >= rs_nread
  /\ \A k \in 1..Len(rs_cfg.pats) :
        RsFrameOff(k) + RsFrameLen(k) <= rs_nread \/ rs_nread' <= RsFrameOff(k)
AsmSkipsUntagged ==
  /\ as_nread' >= as_nread
  /\ \A k \in 1..Len(as_cfg.lens) :
        AsmOff(k) + as_cfg.lens[k] <= as_nread \/ as_nread' <= AsmOff(k)
C35_ShortWindowKeepsFrames ==
  [][/\ FramerShortWindow => UNCHANGED FramerState
     /\ RsShortWindow => UNCHANGED <<rs_out, rs_otags>> /\ RsSkipsUntagged
     /\ AsmShortWindow => UNCHANGED <<as_out, as_otags>> /\ AsmSkipsUntagged]_vars

\* the Reed-Solomon stage has emitted one codeblock and was then invoked with
\* the whole next frame in its window and one byte too little room
C35_Witness ==
  /\ yl_last.stage = "rs" /\ yl_last.ran
  /\ yl_last.room = (RS_N * rs_cfg.I) - 1
  /\ yl_last.n_in >= rs_tm_len
  /\ rs_last = [ret |-> 0, consumed |-> 0]
  /\ Len(rs_otags) = 1
  /\ \E k \in 1..Len(rs_cfg.pats) : RsFrameOff(k) = rs_nread

\* ---------------------------------------------------------------- C36
\* the sub-codeword and symbol index that the symbol at codeblock position p
\* (from 0) carries, and the rule the multiplex loop follows
IlCwAt(p) == il_block[p + 1].cw
IlBuilt5 == rs_cfg.I = 5 /\ il_block # <<>>

\* C36 (as stated): with interleaving depth I = 5, the symbols at positions 2
\* and 7 of an RS codeblock belong to different sub-codewords.
C36_Pos2And7Differ == IlBuilt5 => IlCwAt(2) # IlCwAt(7)

\* C36 (amended): the symbol at codeblock position p belongs to sub-codeword
\* p mod I and is its symbol p div I; with I = 5 positions 2 and 7 are
\* symbols 0 and 1 of the same sub-codeword 2, and positions 2 and 8 belong
\* to different sub-codewords.
C36_PositionModDepth ==
  /\ il_block # <<>> =>
       \A p \in 0..(Len(il_block) - 1) :
          /\ il_block[p + 1].cw = p % rs_cfg.I
          /\ il_block[p + 1].sym = p \div rs_cfg.I
  /\ il_read.pos # -1 =>
       /\ il_read.cw = il_read.pos % rs_cfg.I
       /\ il_read.sym = il_read.pos \div rs_cfg.I
  /\ IlBuilt5 =>
       /\ IlCwAt(2) = 2 /\ IlCwAt(7) = 2
       /\ il_block[3].sym = 0 /\ il_block[8].sym = 1
       /\ IlCwAt(2) # IlCwAt(8)

\* position 7 of a depth-5 codeblock has been read and lies in sub-codeword 2
C36_Witness == rs_cfg.I = 5 /\ il_read.pos = 7 /\ il_read.cw = 2 /\ IlCwAt(2) = 2

\* ---------------------------------------------------------------- C39
\* the bytes read from the tagger's input so far
TagRead == Slice(TagIn, 0, tg_nread)

\* C39: after every invocation of the SPP tagger, the bytes written to its
\* output so far followed by the bytes held in its buffer are the bytes read
\* from its input so far, in the same order, and the output index counts the
\* bytes written.
C39_TaggerConservesBytes ==
  /\ tg_out \o tg_buf = TagRead
  /\ tg_abs_out = Len(tg_out)

\* the tagger has tagged and written a packet, spilled or written further
\* bytes, and still holds bytes in its buffer
C39_Witness ==
  /\ Len(tg_otags) > 0
  /\ Len(tg_out) > tg_otags[1].value
  /\ Len(tg_buf) > 0
  /\ tg_nread < Len(TagIn)

\* ---------------------------------------------------------------- C38
\* a work call with no new input and an output window of 1..MaxVitRoom bytes
\* that takes at least one byte out of the output buffer
VitDrainStep ==
  \E space \in 1..MaxVitRoom :
     /\ vit_work(vit_ingest(0), 0, space)
     /\ Len(vt_outbuf') < Len(vt_outbuf)

\* C38: every frame decoded into the output buffer is eventually written to
\* the output in full when work keeps being invoked with non-zero output
\* room, and no frame blocks the frames behind it: while decoded bytes are
\* buffered, a call with non-zero room writes some of them. (With no new
\* input a call depends only on the buffer, the pending lengths and the head
\* count, so a call that writes nothing leaves all three as they were and
\* every later call writes nothing either.)
C38_DecodedFramesDrain == vt_outbuf # <<>> => ENABLED VitDrainStep

\* ---------------------------------------------------------------- C40
\* the framer queued the stream's packets as they are
QueuedAsSent == \A i \in 1..Len(fr_queued) : fr_queued[i].data = PktBytes(i)

\* C40: for every frame_len the constructor accepts, the FHP of a frame in
\* which a packet header begins is the TFDF offset of the first such header
\* and is neither 0x7FE nor 0x7FF, also when the TFDF is longer than 2046
\* bytes.
C40_FhpNeverWrapsOrCollides ==
  QueuedAsSent =>
    \A k \in 1..NumFrames :
       HeaderOffsets(k) # {} =>
          /\ FhpOf(k) = SetMin(HeaderOffsets(k))
          /\ FhpOf(k) \notin {FHP_OID, FHP_NONE}

====
